---- MODULE Spec2Model ----
(***************************************************************************)
(* The OSD-map manager of the monitor (OSDMonitor): the epoch-versioned    *)
(* ledger of full maps and incrementals with its pruner, the proposal      *)
(* round, the membership state machine and the failure detector.           *)
(***************************************************************************)
EXTENDS Integers, Sequences, FiniteSets, TLC

VARIABLES
  osdmap,             \* OSDMonitor::osdmap, the in-memory committed map
  pending_inc,        \* OSDMonitor::pending_inc, the delta of the round
  store,              \* MonitorDBStore keys of the "osdmap" service
  has_osdmap_manifest,\* OSDMonitor::has_osdmap_manifest
  osdmap_manifest,    \* OSDMonitor::osdmap_manifest.pinned
  paxos,              \* leadership, proposal in flight and its transaction
  failure_info,       \* OSDMonitor::failure_info
  last_osd_report,    \* OSDMonitor::last_osd_report
  down_pending_out,   \* OSDMonitor::down_pending_out
  now,                \* ceph_clock_now()
  conf,               \* g_conf() options that are changed at run time
  reply,              \* what the last handler answered and staged
  creating_pgs,       \* OSDMonitor::creating_pgs
  pending_created_pgs,\* OSDMonitor::pending_created_pgs
  mapping,            \* OSDMonitor::mapping, the PG mapping last computed
  mapping_job,        \* OSDMonitor::mapping_job
  waiting,            \* requests held by wait_for_finished_proposal
  retrying,           \* held requests whose C_RetryMessage has fired
  pending_metadata,   \* OSDMonitor::pending_metadata, the devices it holds
  pending_metadata_rm,\* OSDMonitor::pending_metadata_rm
  sfs,                \* the gateway's s3gw.db: the users and buckets tables
  last_epoch_clean    \* OSDMonitor::last_epoch_clean.report_by_pool

vars == <<osdmap, pending_inc, store, has_osdmap_manifest, osdmap_manifest,
          paxos, failure_info, last_osd_report, down_pending_out, now, conf,
          reply, creating_pgs, pending_created_pgs, mapping, mapping_job,
          waiting, retrying, pending_metadata, pending_metadata_rm, sfs,
          last_epoch_clean>>

\* the PG-creation and mapping state and the held requests
PgVars == <<creating_pgs, pending_created_pgs, mapping, mapping_job>>
WaitVars == <<waiting, retrying>>
\* the metadata staged for the round; with it, what the steps of the round
\* leave alone: the gateway's database and the reports of clean epochs
MdVars == <<pending_metadata, pending_metadata_rm, sfs, last_epoch_clean>>

(***************************************************************************)
(* Bounds of the model.                                                    *)
(***************************************************************************)
MaxOsd == 3
MaxEpoch == 9
MaxRound == 3
MaxTime == 4

(***************************************************************************)
(* Configuration read through g_conf().                                    *)
(***************************************************************************)
mon_min_osdmap_epochs == 1
mon_osdmap_full_prune_min == 3
mon_osdmap_full_prune_interval == 3
mon_osdmap_full_prune_txsize == 2
mon_osd_min_up_ratio_num == 1
mon_osd_min_up_ratio_den == 2
mon_osd_min_in_ratio_num == 1
mon_osd_min_in_ratio_den == 2
mon_osd_report_timeout == 2
osd_heartbeat_grace == 1
mon_osd_min_down_reporters == 2
mon_osd_down_out_interval == 1
mon_osd_destroyed_out_interval == 2
mon_osd_laggy_halflife == 1
mon_osd_laggy_max_interval == 2
mon_osd_laggy_weight == 1

OSDS == 0 .. (MaxOsd - 1)

(***************************************************************************)
(* Device state bits and weights of include/rados.h.                        *)
(***************************************************************************)
CEPH_OSD_EXISTS == "EXISTS"
CEPH_OSD_UP == "UP"
CEPH_OSD_AUTOOUT == "AUTOOUT"
CEPH_OSD_NEW == "NEW"
CEPH_OSD_DESTROYED == "DESTROYED"
CEPH_OSD_NOUP == "NOUP"
CEPH_OSD_NODOWN == "NODOWN"
CEPH_OSD_NOIN == "NOIN"
CEPH_OSD_NOOUT == "NOOUT"
CEPH_OSD_STOP == "STOP"
CEPH_OSD_OUT == 0
CEPH_OSD_IN == 2

\* error codes; ABORT stands for a failed ceph_assert or ceph_abort
EBUSY == 0 - 16
ENOENT == 0 - 2
EPERM == 0 - 1
ABORT == 0 - 1000

\* a xor-mask of state bits is a set of bits; ^ is the symmetric difference
Xor(a, b) == (a \ b) \cup (b \ a)

\* std::map operations on functions with a finite domain
Has(m, k) == k \in DOMAIN m
Put(m, k, v) == [x \in (DOMAIN m) \cup {k} |-> IF x = k THEN v ELSE m[x]]
Del(m, k) == [x \in (DOMAIN m) \ {k} |-> m[x]]
EmptyMap == [x \in {} |-> 0]

RECURSIVE SumOver(_, _)
SumOver(S, f) ==
  IF S = {} THEN 0
  ELSE LET x == CHOOSE y \in S : TRUE IN f[x] + SumOver(S \ {x}, f)

RECURSIVE Pow2(_)
Pow2(n) == IF n <= 0 THEN 1 ELSE 2 * Pow2(n - 1)

Max(S) == CHOOSE x \in S : \A y \in S : y <= x
Min(S) == CHOOSE x \in S : \A y \in S : x <= y

(***************************************************************************)
(* OSDMap: the queries the monitor uses.                                   *)
(***************************************************************************)
osd_xinfo_t ==
  [old_weight |-> 0, dead_epoch |-> 0, down_stamp |-> 0,
   laggy_interval |-> 0, laggy_probability |-> 0]

exists(m, o) ==
  o \in OSDS /\ o < m.max_osd /\ CEPH_OSD_EXISTS \in m.osd_state[o]
is_up(m, o) == exists(m, o) /\ CEPH_OSD_UP \in m.osd_state[o]
is_down(m, o) == ~is_up(m, o)
is_out(m, o) == ~exists(m, o) \/ m.osd_weight[o] = CEPH_OSD_OUT
is_in(m, o) == ~is_out(m, o)
is_destroyed(m, o) == exists(m, o) /\ CEPH_OSD_DESTROYED \in m.osd_state[o]
is_stop(m, o) == exists(m, o) /\ CEPH_OSD_STOP \in m.osd_state[o]
is_noup(m, o) == exists(m, o) /\ CEPH_OSD_NOUP \in m.osd_state[o]
is_nodown(m, o) == exists(m, o) /\ CEPH_OSD_NODOWN \in m.osd_state[o]
is_noin(m, o) == exists(m, o) /\ CEPH_OSD_NOIN \in m.osd_state[o]
is_noout(m, o) == exists(m, o) /\ CEPH_OSD_NOOUT \in m.osd_state[o]
get_state(m, o) == m.osd_state[o]
get_num_osds(m) == Cardinality({o \in OSDS : exists(m, o)})
get_num_up_osds(m) == Cardinality({o \in OSDS : is_up(m, o)})
get_num_in_osds(m) == Cardinality({o \in OSDS : exists(m, o) /\ is_in(m, o)})

\* OSDMap::Incremental::get_net_marked_down / get_net_marked_out
get_net_marked_down(inc, previous) ==
  Cardinality({o \in DOMAIN inc.new_state :
                 CEPH_OSD_UP \in inc.new_state[o] /\ is_up(previous, o)})
  - Cardinality({o \in DOMAIN inc.new_state :
                 CEPH_OSD_UP \in inc.new_state[o] /\ ~is_up(previous, o)})

get_net_marked_out(inc, previous) ==
  Cardinality({o \in DOMAIN inc.new_weight :
                 inc.new_weight[o] = CEPH_OSD_OUT /\ ~is_out(previous, o)})
  - Cardinality({o \in DOMAIN inc.new_weight :
                 inc.new_weight[o] # CEPH_OSD_OUT /\ is_out(previous, o)})

\* OSDMap::Incremental(epoch)
Incremental(e) ==
  [epoch |-> e, modified |-> 0, full_crc |-> 0, have_crc |-> FALSE,
   new_max_osd |-> 0 - 1, new_state |-> EmptyMap, new_weight |-> EmptyMap,
   new_up_client |-> EmptyMap, new_uuid |-> EmptyMap, new_xinfo |-> EmptyMap,
   new_pools |-> EmptyMap, old_pools |-> {}, new_pg_temp |-> EmptyMap,
   new_primary_temp |-> EmptyMap, new_pg_upmap |-> EmptyMap,
   old_pg_upmap |-> {}]

\* OSDMap::Incremental::pending_osd_state_set / pending_osd_state_clear
pending_osd_state_set(inc, o, bits) ==
  [inc EXCEPT !.new_state =
     Put(@, o, (IF Has(@, o) THEN @[o] ELSE {}) \cup bits)]

pending_osd_state_clear(inc, o, bits) ==
  IF ~Has(inc.new_state, o) \/ ~(bits \subseteq inc.new_state[o]) THEN inc
  ELSE IF inc.new_state[o] \ bits = {}
       THEN [inc EXCEPT !.new_state = Del(@, o)]
       ELSE [inc EXCEPT !.new_state = Put(@, o, @[o] \ bits)]

(***************************************************************************)
(* OSDMap::apply_incremental, in the order the map applies the sections:   *)
(* weights, state masks, new up addresses, xinfo, uuid.                    *)
(***************************************************************************)
ApplyWeight(m, inc, o) ==
  IF Has(inc.new_weight, o)
  THEN [weight |-> inc.new_weight[o],
        state |-> IF inc.new_weight[o] # CEPH_OSD_OUT
                  THEN (m.osd_state[o] \cup {CEPH_OSD_EXISTS})
                         \ {CEPH_OSD_AUTOOUT, CEPH_OSD_NEW}
                  ELSE m.osd_state[o],
        old_weight |-> IF inc.new_weight[o] # CEPH_OSD_OUT THEN 0
                       ELSE m.osd_xinfo[o].old_weight]
  ELSE [weight |-> m.osd_weight[o], state |-> m.osd_state[o],
        old_weight |-> m.osd_xinfo[o].old_weight]

\* the mask of a new_state entry: an empty mask is read as CEPH_OSD_UP
StateMask(inc, o) ==
  IF inc.new_state[o] = {} THEN {CEPH_OSD_UP} ELSE inc.new_state[o]

\* the mask applied to device o, empty when the delta has none
MaskOf(inc, o) == IF Has(inc.new_state, o) THEN StateMask(inc, o) ELSE {}

\* a mask with EXISTS on a device that exists removes the device
OsdRemoved(st, s) == CEPH_OSD_EXISTS \in st /\ CEPH_OSD_EXISTS \in s

\* a mask with UP on a device that is up marks it down
OsdMarkedDown(st, s) == CEPH_OSD_UP \in st /\ CEPH_OSD_UP \in s

StateAfter(st, s, inc, o) ==
  (IF OsdRemoved(st, s) THEN {} ELSE Xor(st, s))
    \cup (IF Has(inc.new_up_client, o) THEN {CEPH_OSD_EXISTS, CEPH_OSD_UP}
          ELSE {})

XinfoAfter(w, s, m, inc, o) ==
  IF Has(inc.new_xinfo, o) THEN inc.new_xinfo[o]
  ELSE IF OsdRemoved(w.state, s) THEN osd_xinfo_t
  ELSE [m.osd_xinfo[o] EXCEPT
          !.old_weight = w.old_weight,
          !.down_stamp = IF OsdMarkedDown(w.state, s) THEN inc.modified ELSE @]

\* device o after the weight change w and the state mask s
ApplyOsdWith(w, s, m, inc, o) ==
  [state |-> StateAfter(w.state, s, inc, o),
   weight |-> w.weight,
   addrs |-> IF Has(inc.new_up_client, o) THEN inc.new_up_client[o]
             ELSE IF OsdRemoved(w.state, s) THEN 0 ELSE m.osd_addrs[o],
   uuid |-> IF Has(inc.new_uuid, o) THEN inc.new_uuid[o]
            ELSE IF OsdRemoved(w.state, s) THEN 0 ELSE m.osd_uuid[o],
   xinfo |-> XinfoAfter(w, s, m, inc, o)]

ApplyOsd(m, inc, o) ==
  ApplyOsdWith(ApplyWeight(m, inc, o), MaskOf(inc, o), m, inc, o)

\* the pools after the delta: removed pools dropped, new and changed pools
\* stored with the epoch of the delta as their last_change
PoolsAfter(m, inc) ==
  [p \in ((DOMAIN m.pools) \ inc.old_pools) \cup DOMAIN inc.new_pools |->
     IF Has(inc.new_pools, p)
     THEN [inc.new_pools[p] EXCEPT !.last_change = inc.epoch]
     ELSE m.pools[p]]

\* a table of per-PG entries after the delta: an entry whose new value is
\* the blank one (an empty list, no primary) or that is listed in gone is
\* erased
TempAfter(old, new, blank, gone) ==
  [g \in (((DOMAIN old) \cup {x \in DOMAIN new : new[x] # blank})
            \ {x \in DOMAIN new : new[x] = blank}) \ gone |->
     IF Has(new, g) THEN new[g] ELSE old[g]]

\* the map of epoch e whose devices are r, with the pools and the per-PG
\* tables of m after the delta inc
MapOf(e, r, m, inc) ==
  [epoch |-> e,
   max_osd |-> IF inc.new_max_osd >= 0 THEN inc.new_max_osd ELSE m.max_osd,
   osd_state |-> [o \in OSDS |-> r[o].state],
   osd_weight |-> [o \in OSDS |-> r[o].weight],
   osd_addrs |-> [o \in OSDS |-> r[o].addrs],
   osd_uuid |-> [o \in OSDS |-> r[o].uuid],
   osd_xinfo |-> [o \in OSDS |-> r[o].xinfo],
   pools |-> PoolsAfter(m, inc),
   pg_temp |-> TempAfter(m.pg_temp, inc.new_pg_temp, <<>>, {}),
   primary_temp |-> TempAfter(m.primary_temp, inc.new_primary_temp, 0 - 1, {}),
   pg_upmap |-> TempAfter(m.pg_upmap, inc.new_pg_upmap, <<>>, inc.old_pg_upmap)]

apply_incremental(m, inc) ==
  MapOf(m.epoch + 1, [o \in OSDS |-> ApplyOsd(m, inc, o)], m, inc)

(***************************************************************************)
(* encode / decode / get_crc: the encoded map is the list of its fields,   *)
(* the crc a checksum over that list.                                      *)
(***************************************************************************)
BitCode(b) ==
  CASE b = CEPH_OSD_EXISTS -> 1 [] b = CEPH_OSD_UP -> 2
    [] b = CEPH_OSD_AUTOOUT -> 4 [] b = CEPH_OSD_NEW -> 8
    [] b = CEPH_OSD_DESTROYED -> 16 [] b = CEPH_OSD_NOUP -> 32
    [] b = CEPH_OSD_NODOWN -> 64 [] b = CEPH_OSD_NOIN -> 128
    [] b = CEPH_OSD_NOOUT -> 256 [] OTHER -> 512

StateCode(s) == SumOver(s, [b \in s |-> BitCode(b)])

XinfoCode(xi) ==
  xi.old_weight + 4 * xi.dead_epoch + 64 * xi.down_stamp
    + 1024 * xi.laggy_interval + 16384 * xi.laggy_probability

OsdCode(m, o) ==
  (StateCode(m.osd_state[o]) + 1024 * m.osd_weight[o] + 4096 * m.osd_addrs[o]
     + 16384 * m.osd_uuid[o] + 31 * XinfoCode(m.osd_xinfo[o])) % 65521

ListCode(l) ==
  SumOver(DOMAIN l, [i \in DOMAIN l |-> (i + 1) * (l[i] + 2)])

PoolCode(pi) ==
  pi.pg_num + 8 * (IF pi.creating THEN 1 ELSE 0) + 16 * pi.size
    + 64 * pi.min_size + 256 * pi.last_change

\* the pools and the per-PG tables of the map
PgCode(m) ==
  (SumOver(DOMAIN m.pools,
           [p \in DOMAIN m.pools |-> (p + 1) * PoolCode(m.pools[p])])
   + SumOver(DOMAIN m.pg_temp,
             [g \in DOMAIN m.pg_temp |->
                (8 * g[1] + g[2] + 5) * ListCode(m.pg_temp[g])])
   + SumOver(DOMAIN m.primary_temp,
             [g \in DOMAIN m.primary_temp |->
                (8 * g[1] + g[2] + 7) * (m.primary_temp[g] + 2)])
   + SumOver(DOMAIN m.pg_upmap,
             [g \in DOMAIN m.pg_upmap |->
                (8 * g[1] + g[2] + 11) * ListCode(m.pg_upmap[g])])) % 65521

get_crc(m) ==
  (m.epoch + 17 * m.max_osd
     + SumOver(OSDS, [o \in OSDS |-> (o + 3) * OsdCode(m, o)])
     + 13 * PgCode(m)) % 65521

EmptyBl == [len |-> 0]
encode(m) == [len |-> 1, map |-> m, crc |-> get_crc(m)]
decode(bl) == bl.map

(***************************************************************************)
(* Pools and placement groups.  A PG is <<pool, ps>>.  CRUSH is stood in   *)
(* for by a fixed rule: a PG maps to the first pool.size devices that are  *)
(* up and in, counted from device ps on.                                   *)
(***************************************************************************)
MaxPgNum == 4

PGS(pools) == pools \X (0 .. (MaxPgNum - 1))

pg_pool_t(pg_num, size, min_size, last_change) ==
  [pg_num |-> pg_num, size |-> size, min_size |-> min_size,
   last_change |-> last_change, creating |-> TRUE,
   tiers |-> {}, tier_of |-> 0 - 1, read_tier |-> 0 - 1,
   write_tier |-> 0 - 1]

have_pg_pool(m, p) == Has(m.pools, p)
pg_exists(m, g) == have_pg_pool(m, g[1]) /\ g[2] < m.pools[g[1]].pg_num
get_pg_pool_min_size(m, g) == m.pools[g[1]].min_size
get_pg_pool_size(m, g) == m.pools[g[1]].size

\* the first n elements of the sequence l
Take(l, n) == SubSeq(l, 1, IF n < Len(l) THEN n ELSE Len(l))

\* the elements of l that satisfy keep, in order
RECURSIVE Filter(_, _)
Filter(l, keep) ==
  IF l = <<>> THEN <<>>
  ELSE (IF keep[Head(l)] THEN <<Head(l)>> ELSE <<>>) \o Filter(Tail(l), keep)

\* OSDMap::pg_to_raw_up
pg_to_raw_up(m, g) ==
  IF ~pg_exists(m, g) THEN <<>>
  ELSE Take(Filter([i \in 1 .. MaxOsd |-> (g[2] + i - 1) % MaxOsd],
                   [o \in OSDS |-> is_up(m, o) /\ is_in(m, o)]),
            m.pools[g[1]].size)

\* OSDMap::pg_to_up_acting_osds: the up set follows a pg_upmap entry, the
\* acting set a pg_temp entry, as far as its devices are up
pg_to_up_acting_osds(m, g) ==
  LET up == IF Has(m.pg_upmap, g)
               /\ \A i \in DOMAIN m.pg_upmap[g] : is_in(m, m.pg_upmap[g][i])
            THEN Filter(m.pg_upmap[g], [o \in OSDS |-> is_up(m, o)])
            ELSE pg_to_raw_up(m, g)
      temp == IF Has(m.pg_temp, g)
              THEN Filter(m.pg_temp[g], [o \in OSDS |-> is_up(m, o)])
              ELSE <<>>
  IN [up |-> up, acting |-> IF temp = <<>> THEN up ELSE temp]

(***************************************************************************)
(* creating_pgs_t: the PGs being created (pgs: PG -> creation epoch), the  *)
(* pools whose PGs still wait to be materialized (queue: pool -> range     *)
(* [start, end) with the epoch and time of the pool's creation), the pools *)
(* seen (created_pools) and the epoch of the last scan.                    *)
(***************************************************************************)
mon_osd_max_creating_pgs == 2

creating_pgs_t ==
  [last_scan_epoch |-> 0, created_pools |-> {}, pgs |-> EmptyMap,
   queue |-> EmptyMap]

\* creating_pgs_t::create_pool
create_pool(cp, poolid, pg_num, created, modified) ==
  [cp EXCEPT
     !.queue = Put(@, poolid, [created |-> created, modified |-> modified,
                               start |-> 0, end |-> pg_num]),
     !.created_pools = @ \cup {poolid}]

\* creating_pgs_t::remove_pool
remove_pool(cp, poolid) ==
  [cp EXCEPT
     !.queue = Del(@, poolid),
     !.created_pools = @ \ {poolid},
     !.pgs = [g \in {x \in DOMAIN cp.pgs : x[1] # poolid} |-> cp.pgs[g]]]

\* creating_pgs_t::still_creating_pool
still_creating_pool(cp, poolid) ==
  Has(cp.queue, poolid) \/ \E g \in DOMAIN cp.pgs : g[1] = poolid

\* scan_for_creating_pgs over the pools of todo, lowest pool id first
RECURSIVE scan_for_creating_pgs(_, _, _, _, _)
scan_for_creating_pgs(pools, todo, removed_pools, modified, cp) ==
  IF todo = {} THEN cp
  ELSE LET poolid == Min(todo)
           created == pools[poolid].last_change
           skip == \/ poolid \in cp.created_pools
                   \/ (cp.last_scan_epoch # 0 /\ created <= cp.last_scan_epoch)
                   \/ poolid \in removed_pools
       IN scan_for_creating_pgs(
            pools, todo \ {poolid}, removed_pools, modified,
            IF skip THEN cp
            ELSE create_pool(cp, poolid, pools[poolid].pg_num, created, modified))

RECURSIVE RemovePools(_, _)
RemovePools(cp, todo) ==
  IF todo = {} THEN cp
  ELSE RemovePools(remove_pool(cp, Min(todo)), todo \ {Min(todo)})

\* the scan of update_pending_pgs: new and removed pools, and the PGs that
\* were reported created since the last round
ScanPendingPgs(cp, created_pgs, m, inc) ==
  IF ~(cp.last_scan_epoch < inc.epoch) THEN cp
  ELSE LET s1 == scan_for_creating_pgs(m.pools, DOMAIN m.pools, inc.old_pools,
                                       inc.modified, cp)
           s2 == scan_for_creating_pgs(inc.new_pools, DOMAIN inc.new_pools,
                                       inc.old_pools, inc.modified, s1)
           s3 == RemovePools(s2, inc.old_pools)
       IN [s3 EXCEPT
             !.created_pools = @ \cup {g[1] : g \in created_pgs},
             !.pgs = [g \in (DOMAIN s3.pgs) \ created_pgs |-> s3.pgs[g]],
             !.last_scan_epoch = m.epoch]

\* "filter out any pgs that shouldn't exist"
FilterPendingPgs(cp, nextmap) ==
  [cp EXCEPT !.pgs = [g \in {x \in DOMAIN cp.pgs : pg_exists(nextmap, x)} |->
                        cp.pgs[g]]]

\* the bound on the PGs that are being created at one time
MaxCreating == Max({1, mon_osd_max_creating_pgs})

\* a queue loop that materializes the whole range of the pool at once
ProcessQueue_unbounded(cp, max, epoch) ==
  [cp EXCEPT
     !.queue = EmptyMap,
     !.pgs = [g \in (DOMAIN cp.pgs)
                \cup {x \in PGS(DOMAIN cp.queue) :
                        /\ x[2] >= cp.queue[x[1]].start
                        /\ x[2] < cp.queue[x[1]].end} |->
                IF Has(cp.pgs, g) THEN cp.pgs[g] ELSE epoch]]

\* "process queue": the loop of update_pending_pgs
RECURSIVE ProcessQueue(_, _, _)
ProcessQueue(cp, max, epoch) ==
  IF ~(Cardinality(DOMAIN cp.pgs) < max /\ DOMAIN cp.queue # {}) THEN cp
  ELSE LET poolid == Min(DOMAIN cp.queue)
           q == cp.queue[poolid]
           n == Min({max - Cardinality(DOMAIN cp.pgs), q.end - q.start})
           first == q.start
           end == first + n
           added == {<<poolid, ps>> : ps \in first .. (end - 1)}
       IN ProcessQueue(
            [cp EXCEPT
               !.pgs = [g \in (DOMAIN cp.pgs) \cup added |->
                          IF Has(cp.pgs, g) THEN cp.pgs[g] ELSE epoch],
               !.queue = IF end >= q.end THEN Del(@, poolid)
                         ELSE Put(@, poolid, [q EXCEPT !.start = end])],
            max, epoch)

\* update_pending_pgs(inc, nextmap) for the creating_pgs cp, the reported
\* PGs created_pgs and the committed map m
update_pending_pgs(cp, created_pgs, m, inc, nextmap) ==
  ProcessQueue(FilterPendingPgs(ScanPendingPgs(cp, created_pgs, m, inc), nextmap),
               MaxCreating, inc.epoch)

(***************************************************************************)
(* MonitorDBStore transactions and the PaxosService version keys.          *)
(***************************************************************************)
RECURSIVE ApplyOps(_, _)
ApplyOps(st, tx) ==
  IF tx = <<>> THEN st
  ELSE LET t == Head(tx)
           st1 ==
             CASE t.op = "put_full" -> [st EXCEPT !.full = Put(@, t.v, t.bl)]
               [] t.op = "erase_full" -> [st EXCEPT !.full = Del(@, t.v)]
               [] t.op = "put_version" -> [st EXCEPT !.inc = Put(@, t.v, t.bl)]
               [] t.op = "erase_version" -> [st EXCEPT !.inc = Del(@, t.v)]
               [] t.op = "put_last_committed" ->
                    [st EXCEPT !.last_committed = t.v]
               [] t.op = "put_first_committed" ->
                    [st EXCEPT !.first_committed = t.v]
               [] t.op = "put_full_latest" -> [st EXCEPT !.full_latest = t.v]
               [] t.op = "put_manifest" ->
                    [st EXCEPT !.has_manifest = TRUE, !.manifest = t.pinned]
               [] t.op = "erase_manifest" ->
                    [st EXCEPT !.has_manifest = FALSE, !.manifest = {}]
               [] t.op = "put_creating" -> [st EXCEPT !.creating = t.creating]
               [] t.op = "put_metadata" ->
                    [st EXCEPT !.metadata = @ \cup {t.osd}]
               [] t.op = "erase_metadata" ->
                    [st EXCEPT !.metadata = @ \ {t.osd}]
               [] OTHER -> st
       IN ApplyOps(st1, Tail(tx))

apply_transaction(st, tx) == ApplyOps(st, tx)

get_first_committed == store.first_committed
get_last_committed == store.last_committed
put_version_full(v, bl) == [op |-> "put_full", v |-> v, bl |-> bl]
put_version(v, bl) == [op |-> "put_version", v |-> v, bl |-> bl]
put_last_committed(v) == [op |-> "put_last_committed", v |-> v]
put_version_latest_full(v) == [op |-> "put_full_latest", v |-> v]

(***************************************************************************)
(* osdmap_manifest_t                                                       *)
(***************************************************************************)
get_first_pinned(pinned) == IF pinned = {} THEN 0 ELSE Min(pinned)
get_last_pinned(pinned) == IF pinned = {} THEN 0 ELSE Max(pinned)
is_pinned(pinned, v) == v \in pinned
pin(pinned, v) == pinned \cup {v}
get_lower_closest_pinned(pinned, v) ==
  IF {p \in pinned : p <= v} = {} THEN 0 ELSE Max({p \in pinned : p <= v})

(***************************************************************************)
(* get_version_full / get_full_from_pinned_map: ret is 0, ENOENT, or       *)
(* ABORT where the code asserts or aborts.                                 *)
(***************************************************************************)
RECURSIVE ReplayIncs_unchecked(_, _, _, _)
RECURSIVE ReplayIncs(_, _, _, _)
\* a replay that compares no crc
ReplayIncs_unchecked(st, m, v, ver) ==
  IF v > ver THEN [ret |-> 0, map |-> m]
  ELSE IF ~Has(st.inc, v) THEN [ret |-> ABORT, map |-> m]
  ELSE ReplayIncs_unchecked(st, apply_incremental(m, st.inc[v]), v + 1, ver)

ReplayIncs(st, m, v, ver) ==
  IF v > ver THEN [ret |-> 0, map |-> m]
  ELSE IF ~Has(st.inc, v) THEN [ret |-> ABORT, map |-> m]
  ELSE LET inc == st.inc[v]
           osdm == apply_incremental(m, inc)
       IN IF conf.mon_debug_extra_checks /\ inc.full_crc # 0
               /\ get_crc(osdm) # inc.full_crc
          THEN [ret |-> ABORT, map |-> osdm]
          ELSE ReplayIncs(st, osdm, v + 1, ver)

get_full_from_pinned_map(st, pinned, ver) ==
  LET closest_pinned == get_lower_closest_pinned(pinned, ver)
  IN IF closest_pinned = 0 THEN [ret |-> ENOENT, bl |-> EmptyBl]
     ELSE IF ~Has(st.full, closest_pinned) THEN [ret |-> ABORT, bl |-> EmptyBl]
     ELSE LET r == ReplayIncs(st, decode(st.full[closest_pinned]),
                              closest_pinned + 1, ver)
          IN IF r.ret = 0 THEN [ret |-> 0, bl |-> encode(r.map)]
             ELSE [ret |-> r.ret, bl |-> EmptyBl]

get_version_full(st, pinned, ver) ==
  IF Has(st.full, ver) THEN [ret |-> 0, bl |-> st.full[ver]]
  ELSE get_full_from_pinned_map(st, pinned, ver)

(***************************************************************************)
(* The pruner.                                                             *)
(***************************************************************************)
is_prune_enabled == conf.mon_osdmap_full_prune_enabled

\* a sanitization that lets an interval of one pass
_prune_sanitize_options_allowing_one ==
  /\ conf.mon_osdmap_full_prune_interval # 0
  /\ conf.mon_osdmap_full_prune_min # 0
  /\ ~(conf.mon_osdmap_full_prune_interval > conf.mon_osdmap_full_prune_min)
  /\ ~(conf.mon_osdmap_full_prune_txsize
         < conf.mon_osdmap_full_prune_interval - 1)

_prune_sanitize_options ==
  /\ conf.mon_osdmap_full_prune_interval # 0
  /\ conf.mon_osdmap_full_prune_interval # 1
  /\ conf.mon_osdmap_full_prune_min # 0
  /\ ~(conf.mon_osdmap_full_prune_interval > conf.mon_osdmap_full_prune_min)
  /\ ~(conf.mon_osdmap_full_prune_txsize
         < conf.mon_osdmap_full_prune_interval - 1)

should_prune ==
  LET first == get_first_committed
      last == get_last_committed
      last_pinned == get_last_pinned(osdmap_manifest)
      last_to_pin == last - conf.mon_min_osdmap_epochs
  IN IF (last - first) <= conf.mon_min_osdmap_epochs THEN FALSE
     ELSE IF (last_to_pin - first) < conf.mon_osdmap_full_prune_min THEN FALSE
     ELSE IF has_osdmap_manifest /\ last_pinned >= last_to_pin THEN FALSE
     ELSE IF last_pinned + conf.mon_osdmap_full_prune_interval > last_to_pin
          THEN FALSE
     ELSE TRUE

\* prune_init: the first pin of the round's manifest; ok is FALSE where one
\* of its assertions fails
prune_init ==
  IF ~has_osdmap_manifest
  THEN [ok |-> osdmap_manifest = {} /\ ~store.has_manifest,
        pinned |-> pin(osdmap_manifest, get_first_committed)]
  ELSE [ok |-> /\ osdmap_manifest # {}
               /\ get_first_pinned(osdmap_manifest) = get_first_committed
               /\ get_last_pinned(osdmap_manifest) < get_last_committed,
        pinned |-> pin(osdmap_manifest, get_last_pinned(osdmap_manifest))]

\* a loop that erases the full map of the epoch it pins as well
RECURSIVE PruneLoop_through_pin(_, _, _, _, _)
PruneLoop_through_pin(pinned, num_pruned, tx, ok, txsize) ==
  LET prune_interval == conf.mon_osdmap_full_prune_interval
      last_to_pin == get_last_committed - conf.mon_min_osdmap_epochs
      last_pinned == get_last_pinned(pinned)
  IN IF ~(num_pruned + prune_interval - 1 <= txsize)
        \/ last_pinned + prune_interval > last_to_pin
     THEN [pinned |-> pinned, num_pruned |-> num_pruned, tx |-> tx, ok |-> ok]
     ELSE PruneLoop_through_pin(
            pin(pinned, last_pinned + prune_interval),
            num_pruned + prune_interval - 1,
            tx \o [i \in 1 .. prune_interval |->
                     [op |-> "erase_full", v |-> last_pinned + i]],
            ok, txsize)

\* a loop that goes on to the last epoch to pin whatever it has pruned
RECURSIVE PruneLoop_no_budget(_, _, _, _, _)
PruneLoop_no_budget(pinned, num_pruned, tx, ok, txsize) ==
  LET prune_interval == conf.mon_osdmap_full_prune_interval
      last_to_pin == get_last_committed - conf.mon_min_osdmap_epochs
      last_pinned == get_last_pinned(pinned)
  IN IF last_pinned + prune_interval > last_to_pin
     THEN [pinned |-> pinned, num_pruned |-> num_pruned, tx |-> tx, ok |-> ok]
     ELSE PruneLoop_no_budget(
            pin(pinned, last_pinned + prune_interval),
            num_pruned + prune_interval - 1,
            tx \o [i \in 1 .. (prune_interval - 1) |->
                     [op |-> "erase_full", v |-> last_pinned + i]],
            ok, txsize)

\* the while loop of do_prune over (manifest, num_pruned, tx)
RECURSIVE PruneLoop(_, _, _, _, _)
PruneLoop(pinned, num_pruned, tx, ok, txsize) ==
  LET prune_interval == conf.mon_osdmap_full_prune_interval
      removal_interval == prune_interval - 1
      last_to_pin == get_last_committed - conf.mon_min_osdmap_epochs
      last_pinned == get_last_pinned(pinned)
      next_pinned == last_pinned + prune_interval
  IN IF ~(num_pruned + removal_interval <= txsize)
     THEN [pinned |-> pinned, num_pruned |-> num_pruned, tx |-> tx, ok |-> ok]
     ELSE IF last_pinned + prune_interval > last_to_pin
     THEN [pinned |-> pinned, num_pruned |-> num_pruned, tx |-> tx, ok |-> ok]
     ELSE PruneLoop(
            pin(pinned, next_pinned),
            num_pruned + removal_interval,
            tx \o [i \in 1 .. removal_interval |->
                     [op |-> "erase_full", v |-> last_pinned + i]],
            /\ ok
            /\ Has(store.full, last_pinned)
            /\ Has(store.full, next_pinned)
            /\ \A v \in (last_pinned + 1) .. (next_pinned - 1) :
                 ~is_pinned(pin(pinned, next_pinned), v),
            txsize)

\* do_prune: did is its return value, ok is FALSE where an assertion fails
do_prune ==
  IF ~is_prune_enabled \/ ~_prune_sanitize_options \/ ~should_prune
  THEN [did |-> FALSE, ok |-> TRUE, tx |-> <<>>, num_pruned |-> 0,
        pinned |-> osdmap_manifest]
  ELSE LET init == prune_init
           removal_interval == conf.mon_osdmap_full_prune_interval - 1
           txsize == IF conf.mon_osdmap_full_prune_txsize < removal_interval
                     THEN removal_interval
                     ELSE conf.mon_osdmap_full_prune_txsize
           r == PruneLoop(init.pinned, 0, <<>>, init.ok /\ removal_interval > 0,
                          txsize)
       IN [did |-> TRUE, ok |-> r.ok /\ r.num_pruned > 0,
           tx |-> r.tx \o <<[op |-> "put_manifest", pinned |-> r.pinned]>>,
           num_pruned |-> r.num_pruned, pinned |-> r.pinned]

\* a trim that leaves the manifest's pins below first_committed in place
_prune_update_trimmed_keeping_old(first) ==
  <<[op |-> "put_manifest", pinned |-> osdmap_manifest]>>

\* _prune_update_trimmed(tx, first)
_prune_update_trimmed(first) ==
  LET pinned == {p \in pin(osdmap_manifest, first) : p >= first}
  IN IF get_last_pinned(pinned) = first + 1 \/ Cardinality(pinned) = 1
     THEN <<[op |-> "erase_manifest"]>>
     ELSE <<[op |-> "put_manifest", pinned |-> pinned]>>

\* a trim that leaves out the full map of the new first_committed
encode_trim_extra_without_full(first) ==
  [ok |-> TRUE,
   tx |-> IF has_osdmap_manifest /\ first > get_first_pinned(osdmap_manifest)
          THEN _prune_update_trimmed(first) ELSE <<>>]

\* encode_trim_extra(tx, first)
encode_trim_extra(first) ==
  LET full == get_version_full(store, osdmap_manifest, first)
  IN [ok |-> full.ret # ABORT,
      tx |-> <<put_version_full(first, full.bl)>>
             \o (IF has_osdmap_manifest
                    /\ first > get_first_pinned(osdmap_manifest)
                 THEN _prune_update_trimmed(first) ELSE <<>>)]

\* get_trim_to that takes the forced target after it has kept the floor
\* away from last_committed
get_trim_to_forcing_last(min_last_epoch_clean) ==
  LET min == conf.mon_min_osdmap_epochs
      forced == conf.mon_osd_force_trim_to
      kept == IF min_last_epoch_clean + min > get_last_committed
              THEN (IF min < get_last_committed
                    THEN get_last_committed - min ELSE 0)
              ELSE min_last_epoch_clean
      floor == IF forced > 0 /\ forced < get_last_committed
               THEN forced ELSE kept
  IN IF ~paxos.leader THEN 0
     ELSE IF creating_pgs.pgs # EmptyMap THEN 0
     ELSE IF floor > get_first_committed THEN floor ELSE 0

\* get_trim_to, for the floor get_min_last_epoch_clean() returned
get_trim_to(min_last_epoch_clean) ==
  LET min == conf.mon_min_osdmap_epochs
      forced == conf.mon_osd_force_trim_to
      explicit == IF forced > 0 /\ forced < get_last_committed
                  THEN forced ELSE min_last_epoch_clean
      floor == IF explicit + min > get_last_committed
               THEN (IF min < get_last_committed
                     THEN get_last_committed - min ELSE 0)
               ELSE explicit
  IN IF ~paxos.leader THEN 0
     ELSE IF creating_pgs.pgs # EmptyMap THEN 0
     ELSE IF floor > get_first_committed THEN floor ELSE 0

\* PaxosService::encode_trim(tx, trim_to)
encode_trim(trim_to) ==
  LET n == trim_to - get_first_committed
      extra == encode_trim_extra(trim_to)
  IN [ok |-> extra.ok,
      tx |-> [i \in 1 .. n |->
                [op |-> "erase_version", v |-> get_first_committed + i - 1]]
             \o [i \in 1 .. n |->
                [op |-> "erase_full", v |-> get_first_committed + i - 1]]
             \o <<[op |-> "put_first_committed", v |-> trim_to]>>
             \o extra.tx]

(***************************************************************************)
(* The proposal round: create_pending, encode_pending, update_from_paxos.  *)
(***************************************************************************)
\* a pending delta that skips an epoch
create_pending_skipping(m) == Incremental(m.epoch + 2)

create_pending(m) == Incremental(m.epoch + 1)

\* the crc taken of the map before the delta is applied
FullCrcOf_before_apply(m, inc) == get_crc(m)

\* tmp.get_crc() of encode_pending: the crc of the map the delta yields
FullCrcOf(m, inc) == get_crc(apply_incremental(m, inc))

\* prime_pg_temp(next, pgid) against the committed map m: the acting set
\* the mapping job computed is kept for the PG while its data moves
\* prime_pg_temp that stages over what is staged for the PG
prime_pg_temp_replacing(m, next, inc, pgid) ==
  LET up == mapping.pgs[pgid].up
      acting == mapping.pgs[pgid].acting
      nxt == pg_to_up_acting_osds(next, pgid)
  IN IF Has(creating_pgs.pgs, pgid) \/ ~pg_exists(m, pgid)
        \/ ~Has(mapping.pgs, pgid)
     THEN inc
     ELSE IF acting = nxt.acting /\ ~(up # acting /\ nxt.up = nxt.acting)
     THEN inc
     ELSE IF acting = <<>> THEN inc
     ELSE IF have_pg_pool(next, pgid[1])
             /\ Len(acting) < get_pg_pool_min_size(next, pgid)
     THEN inc
     ELSE [inc EXCEPT
             !.new_pg_temp = Put(@, pgid, IF nxt.up = nxt.acting THEN <<>>
                                          ELSE acting)]

prime_pg_temp(m, next, inc, pgid) ==
  LET up == mapping.pgs[pgid].up
      acting == mapping.pgs[pgid].acting
      nxt == pg_to_up_acting_osds(next, pgid)
  IN IF Has(creating_pgs.pgs, pgid) \/ ~pg_exists(m, pgid)
        \/ ~Has(mapping.pgs, pgid)
     THEN inc
     ELSE IF acting = nxt.acting /\ ~(up # acting /\ nxt.up = nxt.acting)
     THEN inc
     ELSE IF acting = <<>> THEN inc
     ELSE IF have_pg_pool(next, pgid[1])
             /\ Len(acting) < get_pg_pool_min_size(next, pgid)
     THEN inc
     ELSE IF Has(inc.new_pg_temp, pgid) THEN inc
     ELSE [inc EXCEPT
             !.new_pg_temp = Put(@, pgid, IF nxt.up = nxt.acting THEN <<>>
                                          ELSE acting)]

RECURSIVE PrimeAll(_, _, _, _)
PrimeAll(m, next, inc, todo) ==
  IF todo = {} THEN inc
  ELSE LET g == CHOOSE x \in todo :
                  \A y \in todo : x[1] < y[1] \/ (x[1] = y[1] /\ x[2] <= y[2])
       IN PrimeAll(m, next, prime_pg_temp(m, next, inc, g), todo \ {g})

\* the PGs the mapping has osd in the acting set of
get_osd_acting_pgs(osd) ==
  {g \in DOMAIN mapping.pgs :
     \E i \in DOMAIN mapping.pgs[g].acting : mapping.pgs[g].acting[i] = osd}

\* maybe_prime_pg_temp: all PGs when a device comes up or gains weight, the
\* PGs of the devices that go down or lose weight otherwise
maybe_prime_pg_temp(m, inc) ==
  LET gain == \E o \in DOMAIN inc.new_weight :
                ~(inc.new_weight[o] < m.osd_weight[o])
      osds == {o \in DOMAIN inc.new_state :
                 CEPH_OSD_UP \in inc.new_state[o] /\ is_up(m, o)}
              \cup {o \in DOMAIN inc.new_weight :
                      inc.new_weight[o] < m.osd_weight[o]}
      all0 == inc.new_up_client # EmptyMap \/ gain
      estimate == IF osds = {} THEN 0
                  ELSE Cardinality(get_osd_acting_pgs(Min(osds)))
                         * Cardinality(osds)
      all == all0 \/ (osds # {}
                      /\ 4 * estimate > Cardinality(DOMAIN mapping.pgs))
      next == apply_incremental(m, inc)
  IN IF ~all /\ osds = {} THEN inc
     ELSE IF next.pools = EmptyMap THEN inc
     ELSE IF all
     THEN PrimeAll(m, next, inc,
                   {g \in PGS(DOMAIN next.pools) : pg_exists(next, g)})
     ELSE PrimeAll(m, next, inc, UNION {get_osd_acting_pgs(o) : o \in osds})

\* a round that folds the mapping in whatever the state of the job is
PrimedInc_any_job(m, inc) ==
  IF mapping.pgs # EmptyMap THEN maybe_prime_pg_temp(m, inc) ELSE inc

\* the mapping-job step of encode_pending: the mapping is used only when
\* the job is done and is not of an epoch before the committed map
PrimedInc(m, inc) ==
  IF mapping_job.state = "done" /\ ~(mapping.epoch < m.epoch)
  THEN maybe_prime_pg_temp(m, inc)
  ELSE inc

\* "ensure we don't have blank new_state updates"
DropBlank(inc) ==
  [inc EXCEPT
     !.modified = now,
     !.new_state = [o \in {x \in DOMAIN inc.new_state :
                             inc.new_state[x] # {}} |-> inc.new_state[o]]]

\* OSDMap::clean_temps: a pg_temp entry goes when its pool is gone, when
\* all of its devices are down, when it repeats the raw mapping or is
\* larger than the pool; a primary_temp entry goes when its device is down
RECURSIVE CleanPgTemps(_, _, _, _)
CleanPgTemps(oldmap, tmpmap, inc, todo) ==
  IF todo = {} THEN inc
  ELSE LET g == CHOOSE x \in todo : TRUE
           t == tmpmap.pg_temp[g]
           gone == \/ ~have_pg_pool(tmpmap, g[1])
                   \/ \A i \in DOMAIN t : is_down(tmpmap, t[i])
           redundant == have_pg_pool(tmpmap, g[1])
                        /\ (pg_to_raw_up(tmpmap, g) = t
                            \/ Len(t) > get_pg_pool_size(tmpmap, g))
       IN CleanPgTemps(
            oldmap, tmpmap,
            IF gone \/ (redundant /\ Has(oldmap.pg_temp, g))
            THEN [inc EXCEPT !.new_pg_temp = Put(@, g, <<>>)]
            ELSE IF redundant
            THEN [inc EXCEPT !.new_pg_temp = Del(@, g)]
            ELSE inc,
            todo \ {g})

RECURSIVE CleanPrimaryTemps(_, _, _, _)
CleanPrimaryTemps(oldmap, tmpmap, inc, todo) ==
  IF todo = {} THEN inc
  ELSE LET g == CHOOSE x \in todo : TRUE
           gone == \/ ~have_pg_pool(tmpmap, g[1])
                   \/ is_down(tmpmap, tmpmap.primary_temp[g])
       IN CleanPrimaryTemps(
            oldmap, tmpmap,
            IF gone /\ Has(oldmap.primary_temp, g)
            THEN [inc EXCEPT !.new_primary_temp = Put(@, g, 0 - 1)]
            ELSE IF gone
            THEN [inc EXCEPT !.new_primary_temp = Del(@, g)]
            ELSE inc,
            todo \ {g})

clean_temps(oldmap, tmpmap, inc) ==
  CleanPrimaryTemps(oldmap, tmpmap,
                    CleanPgTemps(oldmap, tmpmap, inc, DOMAIN tmpmap.pg_temp),
                    DOMAIN tmpmap.primary_temp)

\* pending_inc as update_pending_pgs sees it
CleanedInc(m, inc) ==
  clean_temps(m, apply_incremental(m, DropBlank(inc)), DropBlank(inc))

\* what encode_pending writes under the key "creating"
PendingCreatings(m, inc) ==
  update_pending_pgs(creating_pgs, pending_created_pgs, m, CleanedInc(m, inc),
                     apply_incremental(m, DropBlank(inc)))

\* "remove any old (or incompat) POOL_CREATING flags"
ClearCreatingFlags(tmp, cp, inc) ==
  LET done == {p \in DOMAIN tmp.pools :
                 tmp.pools[p].creating /\ ~still_creating_pool(cp, p)}
  IN [inc EXCEPT
        !.new_pools = [p \in (DOMAIN inc.new_pools) \cup done |->
                         IF p \in done
                         THEN [(IF Has(inc.new_pools, p) THEN inc.new_pools[p]
                                ELSE tmp.pools[p]) EXCEPT !.creating = FALSE]
                         ELSE inc.new_pools[p]]]

\* the finalized delta: blank new_state entries dropped, the temporary
\* mappings cleaned, the flags of the pools that are created cleared and
\* the crc of the map the delta yields recorded
FinalizeInc(m, inc) ==
  LET i1 == ClearCreatingFlags(apply_incremental(m, DropBlank(inc)),
                               PendingCreatings(m, inc), CleanedInc(m, inc))
  IN [i1 EXCEPT !.full_crc = FullCrcOf(m, i1), !.have_crc = TRUE]

put_creating(cp) == [op |-> "put_creating", creating |-> cp]

\* "metadata, too!": one operation op for each device of the set S
RECURSIVE MetadataOps(_, _)
MetadataOps(op, S) ==
  IF S = {} THEN <<>>
  ELSE <<[op |-> op, osd |-> Min(S)]>> \o MetadataOps(op, S \ {Min(S)})

\* encode_pending(t) that leaves the full map of the epoch to a later
\* transaction
EncodedRound_without_full(m, prune, primed, fin) ==
  [ok |-> prune.ok /\ get_last_committed + 1 = fin.epoch,
   inc |-> fin,
   tx |-> prune.tx
          \o <<put_creating(PendingCreatings(m, primed)),
               put_version(fin.epoch, fin)>>
          \o MetadataOps("put_metadata", pending_metadata)
          \o MetadataOps("erase_metadata", pending_metadata_rm)
          \o <<put_last_committed(fin.epoch)>>]

\* encode_pending(t) for the delta inc built against map m
\* the round of the delta fin, finalized from the primed delta, after the
\* prune prune
EncodedRound(m, prune, primed, fin) ==
  [ok |-> prune.ok /\ get_last_committed + 1 = fin.epoch,
   inc |-> fin,
   tx |-> prune.tx
          \o <<put_creating(PendingCreatings(m, primed)),
               put_version_full(fin.epoch, encode(apply_incremental(m, fin))),
               put_version(fin.epoch, fin)>>
          \o MetadataOps("put_metadata", pending_metadata)
          \o MetadataOps("erase_metadata", pending_metadata_rm)
          \o <<put_last_committed(fin.epoch)>>]

EncodePrimed(m, prune, primed) ==
  EncodedRound(m, prune, primed, FinalizeInc(m, primed))

encode_pending(m, inc) == EncodePrimed(m, do_prune, PrimedInc(m, inc))

\* load_osdmap_manifest against the store st
load_osdmap_manifest(st) ==
  [has |-> st.has_manifest, pinned |-> IF st.has_manifest THEN st.manifest ELSE {}]

\* update_from_paxos found the full map of the epoch in the store
HaveOrig(orig) == orig.ret = 0 /\ orig.bl.len # 0

\* one turn of the loop of update_from_paxos over the incrementals: inc
\* applied gives the map applied, orig is what get_version_full read
WalkStepWith(inc, applied, orig, tx, lor) ==
  [ok |-> ~(orig.ret = ABORT \/ (HaveOrig(orig) /\ ~inc.have_crc)
              \/ (~HaveOrig(orig) /\ inc.have_crc)),
   map |-> IF HaveOrig(orig) /\ inc.full_crc # get_crc(applied)
           THEN decode(orig.bl) ELSE applied,
   tx |-> tx \o (IF HaveOrig(orig) THEN <<>>
                 ELSE <<put_version_full(applied.epoch, encode(applied))>>)
             \o <<put_version_latest_full(applied.epoch)>>,
   last_osd_report |->
     [o \in {x \in DOMAIN lor :
               ~(Has(inc.new_state, x)
                 /\ CEPH_OSD_UP \in inc.new_state[x])} |-> lor[o]]]

WalkStep(st, pinned, m, tx, lor) ==
  WalkStepWith(st.inc[m.epoch + 1],
               apply_incremental(m, st.inc[m.epoch + 1]),
               get_version_full(st, pinned, m.epoch + 1), tx, lor)

\* the "walk through incrementals" loop of update_from_paxos
RECURSIVE WalkIncs(_, _, _, _, _)
WalkIncs(st, pinned, m, tx, lor) ==
  IF ~(st.last_committed > m.epoch)
  THEN [ok |-> TRUE, map |-> m, tx |-> tx, last_osd_report |-> lor]
  ELSE IF ~Has(st.inc, m.epoch + 1)
  THEN [ok |-> FALSE, map |-> m, tx |-> tx, last_osd_report |-> lor]
  ELSE LET step == WalkStep(st, pinned, m, tx, lor)
       IN IF step.ok
          THEN WalkIncs(st, pinned, step.map, step.tx, step.last_osd_report)
          ELSE step

\* process_failures that leaves every record where it is
process_failures_keeping_all(m, fi) == fi

\* process_failures against the map m
process_failures(m, fi) == [o \in {x \in DOMAIN fi : is_up(m, x)} |-> fi[o]]

\* the down -> out bookkeeping at the end of update_from_paxos
UpdateDownPendingOut(m, dpo) ==
  LET keep == {o \in DOMAIN dpo :
                 o \notin OSDS \/ is_out(m, o) \/ is_down(m, o)}
      add == {o \in OSDS : ~is_out(m, o) /\ is_down(m, o) /\ ~Has(dpo, o)}
  IN [o \in keep \cup add |-> IF o \in add THEN now ELSE dpo[o]]

\* the latest full version update_from_paxos starts from: the stored
\* full_latest, looked up again when it fell behind first_committed
LatestFullStored(st) ==
  IF st.full_latest = 0 /\ st.first_committed > 1 THEN st.first_committed
  ELSE st.full_latest

LatestFullRescan(st) ==
  st.first_committed > 1 /\ LatestFullStored(st) < st.first_committed

LatestFull(st) ==
  IF ~LatestFullRescan(st) THEN LatestFullStored(st)
  ELSE IF \A v \in st.first_committed .. st.last_committed : ~Has(st.full, v)
  THEN 0
  ELSE Max({v \in st.first_committed .. st.last_committed : Has(st.full, v)})

\* the end of update_from_paxos, walk being what the loop returned
UpdateWalked(st, mf, ok, walk) ==
  [ok |-> ok /\ walk.ok,
   manifest |-> mf, map |-> walk.map,
   store |-> apply_transaction(st, walk.tx),
   last_osd_report |-> walk.last_osd_report,
   down_pending_out |-> UpdateDownPendingOut(walk.map, down_pending_out),
   failure_info |-> process_failures(walk.map, failure_info),
   creating |-> st.creating,
   mapping_job |-> [state |-> "none", epoch |-> 0]]

\* update_from_paxos from the latest full map on, latest being what
\* get_version_full read for latest_full
UpdateFrom(st, mf, ok, latest_full, latest) ==
  UpdateWalked(
    st, mf,
    /\ ok
    /\ st.last_committed > osdmap.epoch
    /\ (latest_full > osdmap.epoch => HaveOrig(latest)),
    WalkIncs(st, mf.pinned,
             IF latest_full > osdmap.epoch /\ HaveOrig(latest)
             THEN decode(latest.bl) ELSE osdmap,
             <<>>, last_osd_report))

UpdateLatest(st, mf, ok, latest_full) ==
  UpdateFrom(st, mf, ok, latest_full,
             get_version_full(st, mf.pinned, latest_full))

\* update_from_paxos against the store st
update_from_paxos(st) ==
  IF st.last_committed = osdmap.epoch
  THEN [ok |-> TRUE, manifest |-> load_osdmap_manifest(st), map |-> osdmap,
        store |-> st, last_osd_report |-> last_osd_report,
        down_pending_out |-> down_pending_out, failure_info |-> failure_info,
        creating |-> creating_pgs, mapping_job |-> mapping_job]
  ELSE UpdateLatest(
         IF LatestFullRescan(st) /\ LatestFull(st) > 0
         THEN apply_transaction(st, <<put_version_latest_full(LatestFull(st))>>)
         ELSE st,
         load_osdmap_manifest(st),
         ~(LatestFullRescan(st) /\ LatestFull(st) = 0),
         LatestFull(st))

(***************************************************************************)
(* Initial state: a cluster whose genesis map (epoch 1) is committed and   *)
(* whose monitor is the active leader with a fresh pending delta.          *)
(***************************************************************************)
GenesisMap(states, weights) ==
  [epoch |-> 1,
   max_osd |-> MaxOsd,
   osd_state |-> states,
   osd_weight |-> weights,
   osd_addrs |-> [o \in OSDS |-> IF CEPH_OSD_UP \in states[o] THEN 1 ELSE 0],
   osd_uuid |-> [o \in OSDS |-> IF CEPH_OSD_EXISTS \in states[o] THEN o + 1 ELSE 0],
   osd_xinfo |-> [o \in OSDS |-> osd_xinfo_t],
   pools |-> EmptyMap, pg_temp |-> EmptyMap, primary_temp |-> EmptyMap,
   pg_upmap |-> EmptyMap]

GenesisInc(m) ==
  [Incremental(1) EXCEPT !.full_crc = get_crc(m), !.have_crc = TRUE]

NoReply ==
  [op |-> "", osd |-> 0, arg |-> <<>>, ret |-> 0, again |-> FALSE,
   id |-> 0 - 1]

\* the answer of handler op for device o with arguments arg, as far as the
\* answers are observed (conf.observe: 0 nothing, 1 the handler that ran,
\* 2 all of it): again tells that the stimulus before it was the same one
Reply(op, o, arg, ret) ==
  IF conf.observe = 2
  THEN [op |-> op, osd |-> o, arg |-> arg, ret |-> ret,
        again |-> reply.op = op /\ reply.osd = o /\ reply.arg = arg,
        id |-> 0 - 1]
  ELSE IF conf.observe = 1 THEN [NoReply EXCEPT !.op = op]
  ELSE NoReply

IGNORED == 1

\* stands for the answer of a request that is held, not answered yet
HELD == 2

\* the options as they are set by default, the answers observed as far as
\* observe tells
DefaultConf(observe) ==
  [mon_osdmap_full_prune_enabled |-> TRUE,
   mon_osdmap_full_prune_min |-> mon_osdmap_full_prune_min,
   mon_osdmap_full_prune_interval |-> mon_osdmap_full_prune_interval,
   mon_osdmap_full_prune_txsize |-> mon_osdmap_full_prune_txsize,
   mon_min_osdmap_epochs |-> mon_min_osdmap_epochs,
   mon_osd_force_trim_to |-> 0,
   mon_debug_extra_checks |-> TRUE, observe |-> observe]

\* the state after construction with the map m committed, the options c
\* and the failure records fi held
InitConfigured(m, c, fi) ==
  /\ osdmap = m
  /\ pending_inc = create_pending(m)
  /\ store = [first_committed |-> 1, last_committed |-> 1, full_latest |-> 1,
              full |-> Put(EmptyMap, 1, encode(m)),
              inc |-> Put(EmptyMap, 1, GenesisInc(m)),
              has_manifest |-> FALSE, manifest |-> {},
              creating |-> creating_pgs_t,
              metadata |-> {o \in OSDS : exists(m, o)}]
  /\ has_osdmap_manifest = FALSE
  /\ osdmap_manifest = {}
  /\ paxos = [leader |-> TRUE, proposing |-> "", tx |-> <<>>,
              leader_since |-> 1, abort |-> "", plugged |-> FALSE]
  /\ failure_info = fi
  /\ last_osd_report = EmptyMap
  /\ down_pending_out = EmptyMap
  /\ now = 1
  /\ conf = c
  /\ reply = NoReply
  /\ creating_pgs = creating_pgs_t
  /\ pending_created_pgs = {}
  /\ mapping = [epoch |-> 0, pgs |-> EmptyMap]
  /\ mapping_job = [state |-> "none", epoch |-> 0]
  /\ waiting = <<>>
  /\ retrying = <<>>
  /\ pending_metadata = {}
  /\ pending_metadata_rm = {}
  /\ sfs = [users |-> {}, buckets |-> EmptyMap]
  /\ last_epoch_clean = EmptyMap

InitReporting(m, observe, fi) == InitConfigured(m, DefaultConf(observe), fi)

InitWith(m, observe) == InitReporting(m, observe, EmptyMap)

AllUpIn ==
  GenesisMap([o \in OSDS |-> {CEPH_OSD_EXISTS, CEPH_OSD_UP}],
             [o \in OSDS |-> CEPH_OSD_IN])

Init == InitWith(AllUpIn, 0)

\* the same cluster with the handlers, or all of their answers, observed
InitHandlers == InitWith(AllUpIn, 1)

InitObserved == InitWith(AllUpIn, 2)

(***************************************************************************)
(* The round and the trim, as steps of the leader.                         *)
(***************************************************************************)
\* is_active() && is_writeable(): handlers and ticks run only then
Writeable == paxos.leader /\ paxos.proposing = "" /\ paxos.abort = ""

\* PaxosService::propose_pending for the delta inc: encode_pending into a
\* fresh transaction and hand it to paxos
ProposeEncoded(inc, e) ==
  /\ paxos' = [paxos EXCEPT
                 !.proposing = IF e.ok THEN "round" ELSE "",
                 !.tx = IF e.ok THEN e.tx ELSE <<>>,
                 !.abort = IF e.ok THEN "" ELSE "encode_pending"]
  /\ pending_inc' = e.inc
  /\ pending_created_pgs' = IF creating_pgs.last_scan_epoch < inc.epoch
                            THEN {} ELSE pending_created_pgs
  /\ mapping_job' = [state |-> "none", epoch |-> 0]
  /\ UNCHANGED sfs
  /\ UNCHANGED last_epoch_clean
  /\ pending_metadata' = {}
  /\ pending_metadata_rm' = {}
  /\ UNCHANGED <<creating_pgs, mapping>>

ProposeWith(inc) == ProposeEncoded(inc, encode_pending(osdmap, inc))

\* the proposal timer fires
ProposePending ==
  /\ Writeable
  /\ ProposeWith(pending_inc)
  /\ reply' = NoReply
  /\ UNCHANGED <<osdmap, store, has_osdmap_manifest, osdmap_manifest,
                 failure_info, last_osd_report, down_pending_out, now, conf>>
  /\ UNCHANGED WaitVars

\* the state after a refresh u == update_from_paxos(...)
start_mapping(m, job) ==
  IF m.pools # EmptyMap THEN [state |-> "running", epoch |-> m.epoch]
  ELSE [state |-> "none", epoch |-> 0]

Refreshed(u) ==
  /\ store' = u.store
  /\ creating_pgs' = u.creating
  /\ osdmap' = u.map
  /\ has_osdmap_manifest' = u.manifest.has
  /\ osdmap_manifest' = u.manifest.pinned
  /\ last_osd_report' = u.last_osd_report
  /\ down_pending_out' = u.down_pending_out
  /\ failure_info' = u.failure_info

CommitWith(u) ==
  /\ Refreshed(u)
  /\ pending_inc' = IF paxos.proposing = "round"
                    THEN create_pending(u.map) ELSE pending_inc
  /\ paxos' = [paxos EXCEPT !.proposing = "", !.tx = <<>>,
                 !.abort = IF u.ok THEN "" ELSE "update_from_paxos"]
  /\ mapping_job' = IF paxos.proposing = "round"
                    THEN start_mapping(u.map, u.mapping_job)
                    ELSE u.mapping_job
  /\ retrying' = retrying \o waiting
  /\ waiting' = <<>>
  /\ UNCHANGED sfs
  /\ UNCHANGED last_epoch_clean
  /\ pending_metadata' = IF paxos.proposing = "round" THEN {}
                         ELSE pending_metadata
  /\ pending_metadata_rm' = IF paxos.proposing = "round" THEN {}
                            ELSE pending_metadata_rm
  /\ UNCHANGED <<pending_created_pgs, mapping>>

\* the proposal commits: the transaction is applied as one unit, the
\* service refreshes (update_from_paxos) and, after a round, the leader
\* starts the next one (create_pending)
CommitProposal ==
  /\ paxos.proposing # "" /\ paxos.abort = ""
  /\ CommitWith(update_from_paxos(apply_transaction(store, paxos.tx)))
  /\ reply' = NoReply
  /\ UNCHANGED <<now, conf>>

\* leadership is lost, possibly while a proposal is in flight: the
\* transaction is dropped, the service restarts (on_restart) and, active as
\* a peon, on_active hands the held failure reports on (take_all_failures);
\* again holds the requests that this monitor will dispatch again
LoseLeadershipWith(again) ==
  /\ paxos.leader /\ paxos.abort = ""
  /\ paxos' = [paxos EXCEPT !.leader = FALSE, !.proposing = "", !.tx = <<>>]
  /\ last_osd_report' = EmptyMap
  /\ failure_info' = EmptyMap
  /\ reply' = NoReply
  /\ waiting' = <<>>
  /\ retrying' = again
  /\ UNCHANGED <<osdmap, pending_inc, store, has_osdmap_manifest,
                 osdmap_manifest, down_pending_out, now, conf>>
  /\ UNCHANGED <<PgVars, MdVars>>

\* the leadership goes to another monitor, and with it the requests that
\* are dispatched again
LoseLeadership == LoseLeadershipWith(<<>>)

ElectedWith(u) ==
  /\ Refreshed(u)
  /\ pending_inc' = create_pending(u.map)
  /\ paxos' = [paxos EXCEPT !.leader = TRUE, !.leader_since = now,
                 !.abort = IF u.ok THEN "" ELSE "update_from_paxos"]
  /\ mapping_job' = start_mapping(u.map, u.mapping_job)
  /\ UNCHANGED sfs
  /\ UNCHANGED last_epoch_clean
  /\ pending_metadata' = {}
  /\ pending_metadata_rm' = {}
  /\ UNCHANGED <<pending_created_pgs, mapping, WaitVars>>

\* the election is won: refresh, create_pending, on_active
WinElection ==
  /\ ~paxos.leader /\ paxos.abort = ""
  /\ ElectedWith(update_from_paxos(store))
  /\ reply' = NoReply
  /\ UNCHANGED <<now, conf>>

\* a round of another leader reaches this peon's store: the transaction
\* encode_pending built there for an empty delta against the map m
RemoteRound(m) ==
  <<put_creating(PendingCreatings(m, create_pending(m))),
    put_version_full(m.epoch + 1,
                     encode(apply_incremental(m, FinalizeInc(m, create_pending(m))))),
    put_version(m.epoch + 1, FinalizeInc(m, create_pending(m))),
    put_last_committed(m.epoch + 1)>>

\* the peon stores a value of a commit message; it refreshes when the
\* whole message is stored (PeonRefresh)
PeonCommit ==
  /\ ~paxos.leader /\ paxos.abort = ""
  /\ Has(store.full, get_last_committed)
  /\ store' = apply_transaction(
                store, RemoteRound(decode(store.full[get_last_committed])))
  /\ reply' = NoReply
  /\ UNCHANGED <<osdmap, pending_inc, has_osdmap_manifest, osdmap_manifest,
                 paxos, failure_info, last_osd_report, down_pending_out, now,
                 conf>>
  /\ UNCHANGED <<PgVars, WaitVars, MdVars>>

\* refresh of the peon after a commit message (update_from_paxos)
PeonRefresh ==
  /\ ~paxos.leader /\ paxos.abort = ""
  /\ get_last_committed # osdmap.epoch
  /\ Refreshed(update_from_paxos(store))
  /\ paxos' = [paxos EXCEPT
                 !.abort = IF update_from_paxos(store).ok THEN ""
                           ELSE "update_from_paxos"]
  /\ mapping_job' = start_mapping(update_from_paxos(store).map,
                                  update_from_paxos(store).mapping_job)
  /\ reply' = NoReply
  /\ UNCHANGED <<pending_inc, now, conf>>
  /\ UNCHANGED <<pending_created_pgs, mapping, WaitVars, MdVars>>

\* the option mon_debug_extra_checks is changed at run time
SetExtraChecks(b) ==
  /\ paxos.abort = ""
  /\ conf.mon_debug_extra_checks # b
  /\ conf' = [conf EXCEPT !.mon_debug_extra_checks = b]
  /\ UNCHANGED <<osdmap, pending_inc, store, has_osdmap_manifest,
                 osdmap_manifest, paxos, failure_info, last_osd_report,
                 down_pending_out, now, reply>>
  /\ UNCHANGED <<PgVars, WaitVars, MdVars>>

\* a crc no map has: get_crc is taken modulo this value
BadCrc == 65521

\* the store returns the incremental of epoch v with a full_crc that is
\* not the crc of the map of that epoch (a damaged or foreign value)
StoreDamaged(v) ==
  /\ paxos.abort = ""
  /\ Has(store.inc, v)
  /\ store.inc[v].full_crc # BadCrc
  /\ store' = [store EXCEPT !.inc[v].full_crc = BadCrc]
  /\ reply' = NoReply
  /\ UNCHANGED <<osdmap, pending_inc, has_osdmap_manifest, osdmap_manifest,
                 paxos, failure_info, last_osd_report, down_pending_out, now,
                 conf>>
  /\ UNCHANGED <<PgVars, WaitVars, MdVars>>

\* PaxosService::maybe_trim with the floor get_min_last_epoch_clean() gave
MaybeTrim(min_last_epoch_clean) ==
  /\ Writeable
  /\ LET trim_to == get_trim_to(min_last_epoch_clean)
         t == encode_trim(trim_to)
     IN /\ trim_to > 0
        /\ paxos' = [paxos EXCEPT
                       !.proposing = IF t.ok THEN "trim" ELSE "",
                       !.tx = IF t.ok THEN t.tx ELSE <<>>,
                       !.abort = IF t.ok THEN "" ELSE "encode_trim"]
  /\ reply' = NoReply
  /\ UNCHANGED <<osdmap, pending_inc, store, has_osdmap_manifest,
                 osdmap_manifest, failure_info, last_osd_report,
                 down_pending_out, now, conf>>
  /\ UNCHANGED <<PgVars, WaitVars, MdVars>>

\* "ceph config set mon mon_osdmap_full_prune_enabled ..."
SetPruneEnabled(b) ==
  /\ paxos.abort = ""
  /\ conf.mon_osdmap_full_prune_enabled # b
  /\ conf' = [conf EXCEPT !.mon_osdmap_full_prune_enabled = b]
  /\ UNCHANGED <<osdmap, pending_inc, store, has_osdmap_manifest,
                 osdmap_manifest, paxos, failure_info, last_osd_report,
                 down_pending_out, now, reply>>
  /\ UNCHANGED <<PgVars, WaitVars, MdVars>>

(***************************************************************************)
(* The membership state machine: guards.                                   *)
(***************************************************************************)
\* can_mark_down that counts the committed map alone
can_mark_down_committed_only(inc, i) ==
  /\ ~is_nodown(osdmap, i)
  /\ get_num_osds(osdmap) # 0
  /\ ~(get_num_up_osds(osdmap) * mon_osd_min_up_ratio_den
         < mon_osd_min_up_ratio_num * get_num_osds(osdmap))

\* can_mark_down that does not look at the nodown flag
can_mark_down_ignoring_nodown(inc, i) ==
  /\ get_num_osds(osdmap) # 0
  /\ ~((get_num_up_osds(osdmap) - get_net_marked_down(inc, osdmap))
           * mon_osd_min_up_ratio_den
         < mon_osd_min_up_ratio_num * get_num_osds(osdmap))

\* can_mark_down(i) against the delta inc staged so far
can_mark_down(inc, i) ==
  LET num_osds == get_num_osds(osdmap)
      up == get_num_up_osds(osdmap) - get_net_marked_down(inc, osdmap)
  IN /\ ~is_nodown(osdmap, i)
     /\ num_osds # 0
     /\ ~(up * mon_osd_min_up_ratio_den < mon_osd_min_up_ratio_num * num_osds)

can_mark_up(i) == ~is_noup(osdmap, i)

\* can_mark_out that does not look at the noout flag
can_mark_out_ignoring_noout(inc, i) ==
  /\ get_num_osds(osdmap) # 0
  /\ ~((get_num_in_osds(osdmap) - get_net_marked_out(inc, osdmap))
           * mon_osd_min_in_ratio_den
         < mon_osd_min_in_ratio_num * get_num_osds(osdmap))

\* can_mark_out(i) against the delta inc staged so far; i is -1 in tick
can_mark_out(inc, i) ==
  LET num_osds == get_num_osds(osdmap)
      in == get_num_in_osds(osdmap) - get_net_marked_out(inc, osdmap)
  IN /\ ~is_noout(osdmap, i)
     /\ num_osds # 0
     /\ ~(in * mon_osd_min_in_ratio_den < mon_osd_min_in_ratio_num * num_osds)

can_mark_in(i) == ~is_noin(osdmap, i)

\* an assignment that adds the bits to those staged for the device
SetNewState_adding(inc, o, bits) == pending_osd_state_set(inc, o, bits)

\* pending_inc.new_state[o] = bits
SetNewState(inc, o, bits) == [inc EXCEPT !.new_state = Put(@, o, bits)]

PendingXinfo(inc, o) ==
  IF Has(inc.new_xinfo, o) THEN inc.new_xinfo[o] ELSE osdmap.osd_xinfo[o]

(***************************************************************************)
(* The failure detector.                                                   *)
(***************************************************************************)
\* osdmap.crush->get_full_location(o)[mon_osd_reporter_subtree_level]: the
\* first two devices share a subtree, the others have none at that level
\* and count under their own name ("osd.N")
ReporterSubtree(o) == IF o < 2 THEN 0 ELSE 100 + o

reporters_by_subtree(fi) == {ReporterSubtree(r) : r \in DOMAIN fi.reporters}

\* failure_info_t::get_failed_since
get_failed_since(fi) == Min({fi.reporters[r] : r \in DOMAIN fi.reporters})

\* failure_info_t::add_report: a reporter already present keeps its entry
add_report(fi, who, failed_since) ==
  IF Has(fi.reporters, who) THEN fi
  ELSE [fi EXCEPT !.reporters = Put(@, who, failed_since)]

cancel_report(fi, who) == [fi EXCEPT !.reporters = Del(@, who)]

\* 2^LagScale * decay * laggy_interval * laggy_probability, the decay being
\* exp(elapsed * log(.5) / mon_osd_laggy_halflife)
LagScale == 8

\* a lagginess that grows with the time elapsed
Decayed_growing(xi, elapsed) ==
  Pow2(LagScale) * xi.laggy_interval * xi.laggy_probability * (1 + elapsed)

Decayed(xi, elapsed) ==
  LET halvings == elapsed \div mon_osd_laggy_halflife
  IN IF halvings < 0 \/ halvings > LagScale THEN 0
     ELSE Pow2(LagScale - halvings) * xi.laggy_interval * xi.laggy_probability

\* failed_for >= grace, with grace = osd_heartbeat_grace + my_grace +
\* peer_grace, all terms scaled by 2^LagScale * reporters.size()
GraceElapsed(t, target_osd, fi) ==
  LET failed_for == t - get_failed_since(fi)
      n == Cardinality(DOMAIN fi.reporters)
      my_grace == Decayed(osdmap.osd_xinfo[target_osd], failed_for)
      peer_grace == SumOver(DOMAIN fi.reporters,
                      [r \in DOMAIN fi.reporters |->
                         Decayed(osdmap.osd_xinfo[r],
                                 t - osdmap.osd_xinfo[r].down_stamp)])
  IN failed_for * n * Pow2(LagScale) >=
       osd_heartbeat_grace * n * Pow2(LagScale) + n * my_grace + peer_grace

\* check_failure that counts the reporters, not their subtrees
check_failure_counting_reporters(inc, t, target_osd, fi) ==
  IF Has(inc.new_state, target_osd) /\ CEPH_OSD_UP \in inc.new_state[target_osd]
  THEN [found |-> TRUE, inc |-> inc]
  ELSE IF GraceElapsed(t, target_osd, fi)
          /\ Cardinality(DOMAIN fi.reporters) >= mon_osd_min_down_reporters
  THEN [found |-> TRUE, inc |-> SetNewState(inc, target_osd, {CEPH_OSD_UP})]
  ELSE [found |-> FALSE, inc |-> inc]

\* check_failure(now, target_osd, fi) against the delta inc
check_failure(inc, t, target_osd, fi) ==
  IF Has(inc.new_state, target_osd) /\ CEPH_OSD_UP \in inc.new_state[target_osd]
  THEN [found |-> TRUE, inc |-> inc]
  ELSE IF GraceElapsed(t, target_osd, fi)
          /\ Cardinality(reporters_by_subtree(fi)) >= mon_osd_min_down_reporters
  THEN [found |-> TRUE, inc |-> SetNewState(inc, target_osd, {CEPH_OSD_UP})]
  ELSE [found |-> FALSE, inc |-> inc]

\* force_failure(target_osd, by)
force_failure(inc, target_osd) ==
  IF Has(inc.new_state, target_osd) /\ CEPH_OSD_UP \in inc.new_state[target_osd]
  THEN inc
  ELSE [SetNewState(inc, target_osd, {CEPH_OSD_UP}) EXCEPT
          !.new_xinfo = Put(@, target_osd,
                            [PendingXinfo(inc, target_osd) EXCEPT
                               !.dead_epoch = inc.epoch])]

\* check_failures(now): the loop over failure_info in key order
RECURSIVE check_failures(_, _, _)
check_failures(inc, t, todo) ==
  IF todo = {} THEN [found |-> FALSE, inc |-> inc]
  ELSE LET o == Min(todo)
           c == IF can_mark_down(inc, o)
                THEN check_failure(inc, t, o, failure_info[o])
                ELSE [found |-> FALSE, inc |-> inc]
           rest == check_failures(c.inc, t, todo \ {o})
       IN [found |-> c.found \/ rest.found, inc |-> rest.inc]

\* handle_osd_timeouts(now, last_osd_report): the loop from device i on
RECURSIVE TimeoutLoop(_, _, _)
TimeoutLoop(i, inc, lor) ==
  IF i >= MaxOsd THEN [new_down |-> FALSE, inc |-> inc, last_osd_report |-> lor]
  ELSE IF ~exists(osdmap, i) THEN TimeoutLoop(i + 1, inc, Del(lor, i))
  ELSE IF ~is_up(osdmap, i) THEN TimeoutLoop(i + 1, inc, lor)
  ELSE IF ~Has(lor, i) THEN TimeoutLoop(i + 1, inc, Put(lor, i, now))
  ELSE IF can_mark_down(inc, i) /\ now - lor[i] > mon_osd_report_timeout
  THEN LET rest == TimeoutLoop(i + 1, SetNewState(inc, i, {CEPH_OSD_UP}), lor)
       IN [rest EXCEPT !.new_down = TRUE]
  ELSE TimeoutLoop(i + 1, inc, lor)

\* handle_osd_timeouts of a monitor that sweeps from its first tick on
handle_osd_timeouts_without_leader_grace(inc, lor) == TimeoutLoop(0, inc, lor)

handle_osd_timeouts(inc, lor) ==
  IF now - paxos.leader_since < mon_osd_report_timeout
  THEN [new_down |-> FALSE, inc |-> inc, last_osd_report |-> lor]
  ELSE TimeoutLoop(0, inc, lor)

(***************************************************************************)
(* Messages from the devices.  A handler is preprocess_* followed, unless  *)
(* preprocess answered, by prepare_*; the proposal a prepare asks for is   *)
(* made later, by ProposePending.  Messages carry the current epoch.       *)
(***************************************************************************)
Addrs == {1, 2}
Uuids == {1, 2}

\* preprocess_failure: TRUE when the report goes on to prepare_failure
preprocess_failure(badboy, from, from_addr, target_addr, failed) ==
  /\ ~(~exists(osdmap, from) \/ osdmap.osd_addrs[from] # from_addr
         \/ (is_down(osdmap, from) /\ failed))
  /\ ~is_down(osdmap, badboy)
  /\ osdmap.osd_addrs[badboy] = target_addr
  /\ can_mark_down(pending_inc, badboy)

\* prepare_failure, a report (if_osd_failed)
prepare_failure(target_osd, reporter, failed_for, immediate) ==
  IF immediate
  THEN [ret |-> TRUE, inc |-> force_failure(pending_inc, target_osd),
        failure_info |-> failure_info]
  ELSE LET old == IF Has(failure_info, target_osd) THEN failure_info[target_osd]
                  ELSE [reporters |-> EmptyMap]
           fi == add_report(old, reporter, now - failed_for)
           c == check_failure(pending_inc, now, target_osd, fi)
       IN [ret |-> c.found, inc |-> c.inc,
           failure_info |-> Put(failure_info, target_osd, fi)]

\* prepare_failure, a cancellation that drops the record of the device
prepare_failure_cancel_dropping_record(target_osd, reporter) ==
  Del(failure_info, target_osd)

\* prepare_failure, a cancellation
prepare_failure_cancel(target_osd, reporter) ==
  IF ~Has(failure_info, target_osd) THEN failure_info
  ELSE LET fi == cancel_report(failure_info[target_osd], reporter)
       IN IF DOMAIN fi.reporters = {} THEN Del(failure_info, target_osd)
          ELSE Put(failure_info, target_osd, fi)

\* MOSDFailure(target, failed) from device from
FailureMsg(target, from, from_addr, target_addr, failed_for, immediate) ==
  LET arg == <<from, from_addr, target_addr, failed_for,
               IF immediate THEN 1 ELSE 0>>
  IN
  /\ Writeable
  /\ IF preprocess_failure(target, from, from_addr, target_addr, TRUE)
     THEN LET p == prepare_failure(target, from, failed_for, immediate)
          IN /\ pending_inc' = p.inc
             /\ failure_info' = p.failure_info
             /\ reply' = Reply("failure", target, arg, 0)
     ELSE /\ reply' = Reply("failure", target, arg, IGNORED)
          /\ UNCHANGED <<pending_inc, failure_info>>
  /\ UNCHANGED <<osdmap, store, has_osdmap_manifest, osdmap_manifest, paxos,
                 last_osd_report, down_pending_out, now, conf, waiting>>
  /\ UNCHANGED <<PgVars, MdVars>>

Failure(target, from, from_addr, target_addr, failed_for, immediate) ==
  /\ FailureMsg(target, from, from_addr, target_addr, failed_for, immediate)
  /\ UNCHANGED retrying

\* MOSDFailure(target, still alive) from device from
FailureCancel(target, from, from_addr, target_addr) ==
  LET arg == <<from, from_addr, target_addr>>
  IN
  /\ Writeable
  /\ IF preprocess_failure(target, from, from_addr, target_addr, FALSE)
     THEN /\ failure_info' = prepare_failure_cancel(target, from)
          /\ reply' = Reply("cancel", target, arg, 0)
     ELSE /\ reply' = Reply("cancel", target, arg, IGNORED)
          /\ UNCHANGED failure_info
  /\ UNCHANGED <<osdmap, pending_inc, store, has_osdmap_manifest,
                 osdmap_manifest, paxos, last_osd_report, down_pending_out,
                 now, conf>>
  /\ UNCHANGED <<PgVars, WaitVars, MdVars>>

preprocess_mark_me_down(from, target_addrs) ==
  /\ ~(~exists(osdmap, from) \/ is_down(osdmap, from)
         \/ osdmap.osd_addrs[from] # target_addrs)
  /\ can_mark_down(pending_inc, from)

\* MOSDMarkMeDown from device from, asking for an ack
MarkMeDown(from, target_addrs) ==
  /\ Writeable
  /\ IF preprocess_mark_me_down(from, target_addrs)
     THEN pending_inc' = SetNewState(pending_inc, from, {CEPH_OSD_UP})
     ELSE UNCHANGED pending_inc
  /\ reply' = Reply("mark_me_down", from, <<target_addrs>>, 0)
  /\ UNCHANGED <<osdmap, store, has_osdmap_manifest, osdmap_manifest, paxos,
                 failure_info, last_osd_report, down_pending_out, now, conf>>
  /\ UNCHANGED <<PgVars, WaitVars, MdVars>>

\* preprocess_boot: "booted" (duplicate, acknowledged), "ignore" or "prepare"
preprocess_boot(from, addr, fsid) ==
  IF is_up(osdmap, from) /\ osdmap.osd_addrs[from] = addr THEN "booted"
  ELSE IF exists(osdmap, from) /\ osdmap.osd_uuid[from] # 0
          /\ osdmap.osd_uuid[from] # fsid THEN "ignore"
  ELSE IF ~can_mark_up(from) THEN "ignore"
  ELSE "prepare"

\* the lagginess prepare_boot learns for a device that boots
BootXinfo(xi, boot_epoch) ==
  IF boot_epoch = 0
  THEN [xi EXCEPT
          !.laggy_probability = @ * (1 - mon_osd_laggy_weight),
          !.laggy_interval = @ * (1 - mon_osd_laggy_weight)]
  ELSE LET interval == now - xi.down_stamp
           capped == IF mon_osd_laggy_max_interval # 0
                        /\ interval > mon_osd_laggy_max_interval
                     THEN mon_osd_laggy_max_interval ELSE interval
       IN [xi EXCEPT
             !.laggy_interval =
               IF xi.down_stamp # 0
               THEN capped * mon_osd_laggy_weight + @ * (1 - mon_osd_laggy_weight)
               ELSE @,
             !.laggy_probability =
               mon_osd_laggy_weight + @ * (1 - mon_osd_laggy_weight)]

\* prepare_boot that marks the device up at once, whether it is up or not
prepare_boot_marking_up_at_once(from, addr, fsid, boot_epoch) ==
  [ok |-> TRUE, dpo |-> Del(down_pending_out, from), wait |-> FALSE,
   inc |-> [pending_inc EXCEPT !.new_up_client = Put(@, from, addr)]]

\* prepare_boot, with mon_osd_auto_mark_auto_out_in and
\* mon_osd_auto_mark_new_in set and mon_osd_auto_mark_in unset
prepare_boot(from, addr, fsid, boot_epoch) ==
  LET base == IF exists(osdmap, from) THEN get_state(osdmap, from)
              ELSE {CEPH_OSD_NEW}
      oldstate == IF Has(pending_inc.new_state, from)
                  THEN Xor(base, pending_inc.new_state[from]) ELSE base
  IN
  IF is_up(osdmap, from)
  THEN [ok |-> osdmap.osd_uuid[from] = fsid,
        dpo |-> down_pending_out, wait |-> TRUE,
        inc |-> IF ~Has(pending_inc.new_state, from)
                   \/ CEPH_OSD_UP \notin pending_inc.new_state[from]
                THEN SetNewState(pending_inc, from, {CEPH_OSD_UP})
                ELSE pending_inc]
  ELSE IF Has(pending_inc.new_up_client, from)
  THEN [ok |-> TRUE, dpo |-> down_pending_out, wait |-> TRUE,
        inc |-> pending_inc]
  ELSE
    LET xi0 == BootXinfo(PendingXinfo(pending_inc, from), boot_epoch)
        markin == (CEPH_OSD_AUTOOUT \in oldstate \/ CEPH_OSD_NEW \in oldstate)
                    /\ can_mark_in(from)
        xi == IF markin /\ xi0.old_weight > 0 THEN [xi0 EXCEPT !.old_weight = 0]
              ELSE xi0
        setuuid == ~exists(osdmap, from) \/ osdmap.osd_uuid[from] # fsid
    IN [ok |-> ~setuuid \/ ~exists(osdmap, from) \/ osdmap.osd_uuid[from] = 0,
        dpo |-> Del(down_pending_out, from), wait |-> FALSE,
        inc |-> [pending_inc EXCEPT
                   !.new_up_client = Put(@, from, addr),
                   !.new_uuid = IF setuuid THEN Put(@, from, fsid) ELSE @,
                   !.new_xinfo = Put(@, from, xi),
                   !.new_weight =
                     IF ~markin THEN @
                     ELSE IF xi0.old_weight > 0 THEN Put(@, from, xi0.old_weight)
                     ELSE Put(@, from, CEPH_OSD_IN)]]

\* MOSDBoot from device from
\* a request held by wait_for_finished_proposal with a C_RetryMessage
Held(op, target, arg) == [op |-> op, target |-> target, arg |-> arg]

\* the handler of the boot message, whether it arrives or is re-run
BootMsg(from, addr, fsid, boot_epoch) ==
  LET pre == IF from >= osdmap.max_osd THEN "ignore"
             ELSE preprocess_boot(from, addr, fsid)
      arg == <<addr, fsid, boot_epoch>>
  IN
  /\ Writeable
  /\ IF pre = "prepare"
     THEN LET p == prepare_boot(from, addr, fsid, boot_epoch)
          IN /\ pending_inc' = p.inc
             /\ down_pending_out' = p.dpo
             /\ paxos' = IF p.ok THEN paxos
                         ELSE [paxos EXCEPT !.abort = "prepare_boot"]
             /\ waiting' = IF p.wait /\ p.ok
                           THEN Append(waiting, Held("boot", from, arg))
                           ELSE waiting
             /\ reply' = Reply("boot", from, arg,
                                IF p.wait /\ p.ok THEN HELD ELSE 0)
             /\ UNCHANGED sfs
             /\ UNCHANGED last_epoch_clean
             /\ pending_metadata' = IF p.wait THEN pending_metadata
                                    ELSE pending_metadata \cup {from}
             /\ pending_metadata_rm' = IF p.wait THEN pending_metadata_rm
                                       ELSE pending_metadata_rm \ {from}
     ELSE /\ reply' = Reply("boot", from, arg,
                            IF pre = "booted" THEN 0 ELSE IGNORED)
          /\ UNCHANGED <<pending_inc, down_pending_out, paxos, waiting>>
          /\ UNCHANGED MdVars
  /\ UNCHANGED <<osdmap, store, has_osdmap_manifest, osdmap_manifest,
                 failure_info, last_osd_report, now, conf>>
  /\ UNCHANGED PgVars

Boot(from, addr, fsid, boot_epoch) ==
  /\ BootMsg(from, addr, fsid, boot_epoch)
  /\ UNCHANGED retrying

\* MOSDBeacon from device from at address addr
Beacon(from, addr) ==
  /\ Writeable
  /\ IF exists(osdmap, from) /\ is_up(osdmap, from)
        /\ osdmap.osd_addrs[from] = addr
     THEN last_osd_report' = Put(last_osd_report, from, now)
     ELSE UNCHANGED last_osd_report
  /\ reply' = Reply("beacon", from, <<addr>>, 0)
  /\ UNCHANGED <<osdmap, pending_inc, store, has_osdmap_manifest,
                 osdmap_manifest, paxos, failure_info, down_pending_out, now,
                 conf>>
  /\ UNCHANGED <<PgVars, WaitVars, MdVars>>

(***************************************************************************)
(* tick.                                                                   *)
(***************************************************************************)
\* down.sec() >= grace for the automatic mark-out, grace being
\* mon_osd_down_out_interval plus the decayed lagginess of the device
DownOutElapsed(o, down) ==
  down * Pow2(LagScale) >=
    mon_osd_down_out_interval * Pow2(LagScale) + Decayed(osdmap.osd_xinfo[o], down)

\* pending_inc of tick marking device o out
AutoOut(inc, o) ==
  [pending_osd_state_set(inc, o, {CEPH_OSD_AUTOOUT}) EXCEPT
     !.new_weight = Put(@, o, CEPH_OSD_OUT),
     !.new_xinfo = Put(@, o, [PendingXinfo(inc, o) EXCEPT
                                !.old_weight = osdmap.osd_weight[o]])]

\* the loop of tick over down_pending_out, in key order
RECURSIVE MarkOutLoop(_, _, _)
MarkOutLoop(todo, inc, dpo) ==
  IF todo = {} THEN [marked |-> FALSE, inc |-> inc, down_pending_out |-> dpo]
  ELSE
    LET o == Min(todo)
        down == now - dpo[o]
    IN IF is_down(osdmap, o) /\ is_in(osdmap, o) /\ can_mark_out(inc, o)
       THEN LET down_out == ~is_destroyed(osdmap, o)
                              /\ mon_osd_down_out_interval > 0
                              /\ DownOutElapsed(o, down)
                destroyed_out == is_destroyed(osdmap, o)
                                   /\ mon_osd_destroyed_out_interval > 0
                                   /\ down >= mon_osd_destroyed_out_interval
            IN IF down_out \/ destroyed_out
               THEN [MarkOutLoop(todo \ {o}, AutoOut(inc, o), Del(dpo, o))
                       EXCEPT !.marked = TRUE]
               ELSE MarkOutLoop(todo \ {o}, inc, dpo)
       ELSE MarkOutLoop(todo \ {o}, inc, Del(dpo, o))

\* tick of the leader, mon_osd_down_out_subtree_limit being empty; it
\* proposes at once when it staged something or a prune is due
Tick ==
  /\ Writeable
  /\ LET m == load_osdmap_manifest(store)
         t == handle_osd_timeouts(pending_inc, last_osd_report)
         f == check_failures(t.inc, now, DOMAIN failure_info)
         prune == is_prune_enabled /\ should_prune
         out == IF can_mark_out(f.inc, 0 - 1)
                THEN MarkOutLoop(DOMAIN down_pending_out, f.inc, down_pending_out)
                ELSE [marked |-> FALSE, inc |-> f.inc,
                      down_pending_out |-> down_pending_out]
         do_propose == t.new_down \/ f.found \/ prune \/ out.marked
                         \/ out.inc.new_pg_temp # EmptyMap
     IN /\ has_osdmap_manifest' = m.has
        /\ osdmap_manifest' = m.pinned
        /\ last_osd_report' = t.last_osd_report
        /\ down_pending_out' = out.down_pending_out
        /\ IF do_propose THEN ProposeWith(out.inc)
           ELSE /\ pending_inc' = out.inc
                /\ UNCHANGED <<paxos, PgVars, MdVars>>
        /\ reply' = Reply("tick", 0, <<>>, 0)
  /\ UNCHANGED <<osdmap, store, failure_info, now, conf>>
  /\ UNCHANGED WaitVars

\* the clock
AdvanceTime ==
  /\ now < MaxTime
  /\ paxos.abort = ""
  /\ now' = now + 1
  /\ reply' = NoReply
  /\ UNCHANGED <<osdmap, pending_inc, store, has_osdmap_manifest,
                 osdmap_manifest, paxos, failure_info, last_osd_report,
                 down_pending_out, conf>>
  /\ UNCHANGED <<PgVars, WaitVars, MdVars>>

(***************************************************************************)
(* Pools, the PGs reported created and the mapping job.                    *)
(***************************************************************************)
MaxPool == 2

\* the id the next pool gets
NextPoolId ==
  1 + Max({0} \cup DOMAIN osdmap.pools \cup DOMAIN pending_inc.new_pools)

\* "osd pool create": the pool is staged with the flag CREATING and the
\* pending epoch as its last change
PoolCreateWithin(max, pg_num, size, min_size) ==
  /\ Writeable
  /\ NextPoolId <= max
  /\ pending_inc' = [pending_inc EXCEPT
                       !.new_pools =
                         Put(@, NextPoolId,
                             pg_pool_t(pg_num, size, min_size,
                                       pending_inc.epoch))]
  /\ reply' = Reply("osd pool create", NextPoolId, <<pg_num, size, min_size>>, 0)
  /\ UNCHANGED <<osdmap, store, has_osdmap_manifest, osdmap_manifest, paxos,
                 failure_info, last_osd_report, down_pending_out, now, conf>>
  /\ UNCHANGED <<PgVars, WaitVars, MdVars>>

\* the pools that are created are MaxPool at most
PoolCreate(pg_num, size, min_size) ==
  PoolCreateWithin(MaxPool, pg_num, size, min_size)

\* a report of a created PG that is dropped
PgCreated_dropped(from, addr, pgid) ==
  /\ Writeable
  /\ reply' = Reply("pg_created", from, <<addr, pgid>>, 0)
  /\ UNCHANGED <<osdmap, pending_inc, store, has_osdmap_manifest,
                 osdmap_manifest, paxos, failure_info, last_osd_report,
                 down_pending_out, now, conf>>
  /\ UNCHANGED <<PgVars, WaitVars, MdVars>>

\* prepare_pg_created: device from reports that it created the PG pgid
PgCreated(from, addr, pgid) ==
  /\ Writeable
  /\ IF is_up(osdmap, from) /\ osdmap.osd_addrs[from] = addr
     THEN pending_created_pgs' = pending_created_pgs \cup {pgid}
     ELSE UNCHANGED pending_created_pgs
  /\ reply' = Reply("pg_created", from, <<addr, pgid>>, 0)
  /\ UNCHANGED <<osdmap, pending_inc, store, has_osdmap_manifest,
                 osdmap_manifest, paxos, failure_info, last_osd_report,
                 down_pending_out, now, conf>>
  /\ UNCHANGED <<creating_pgs, mapping, mapping_job, WaitVars, MdVars>>

\* the mapping the job computes from the map m
MappingOf(m) ==
  [epoch |-> m.epoch,
   pgs |-> [g \in {x \in PGS(DOMAIN m.pools) : pg_exists(m, x)} |->
              pg_to_up_acting_osds(m, g)]]

\* the mapping job completes
MappingJobFinish ==
  /\ paxos.abort = ""
  /\ mapping_job.state = "running"
  /\ mapping' = MappingOf(osdmap)
  /\ mapping_job' = [mapping_job EXCEPT !.state = "done"]
  /\ reply' = NoReply
  /\ UNCHANGED <<osdmap, pending_inc, store, has_osdmap_manifest,
                 osdmap_manifest, paxos, failure_info, last_osd_report,
                 down_pending_out, now, conf>>
  /\ UNCHANGED <<creating_pgs, pending_created_pgs, WaitVars, MdVars>>

(***************************************************************************)
(* Operator commands, each for one device id.  A command that changed      *)
(* pending_inc goes to "update": it is answered when the round commits.    *)
(***************************************************************************)
CommandFrame ==
  UNCHANGED <<osdmap, store, has_osdmap_manifest, osdmap_manifest, paxos,
              failure_info, last_osd_report, down_pending_out, now, conf>>
  /\ UNCHANGED <<PgVars, WaitVars, MdVars>>

\* "osd down" that flips the staged up bit of the device
osd_down_toggling(inc, osd, definitely_dead) ==
  [inc EXCEPT !.new_state =
     Put(@, osd, Xor(IF Has(@, osd) THEN @[osd] ELSE {}, {CEPH_OSD_UP}))]

\* "osd down <id> [--definitely-dead]"
osd_down(inc, osd, definitely_dead) ==
  LET i1 == IF is_down(osdmap, osd) THEN inc
            ELSE pending_osd_state_set(inc, osd, {CEPH_OSD_UP})
  IN IF definitely_dead
     THEN [i1 EXCEPT !.new_xinfo =
             Put(@, osd, [PendingXinfo(i1, osd) EXCEPT !.dead_epoch = i1.epoch])]
     ELSE i1

OsdDown(osd, definitely_dead) ==
  /\ Writeable
  /\ pending_inc' = IF exists(osdmap, osd)
                    THEN osd_down(pending_inc, osd, definitely_dead)
                    ELSE pending_inc
  /\ reply' = Reply("osd down", osd, <<IF definitely_dead THEN 1 ELSE 0>>, 0)
  /\ CommandFrame

\* "osd out <id>"
osd_out(inc, osd) ==
  IF is_out(osdmap, osd) THEN inc
  ELSE [inc EXCEPT
          !.new_weight = Put(@, osd, CEPH_OSD_OUT),
          !.new_xinfo =
            IF osdmap.osd_weight[osd] # 0
            THEN Put(@, osd, [PendingXinfo(inc, osd) EXCEPT
                                !.old_weight = osdmap.osd_weight[osd]])
            ELSE @]

OsdOut(osd) ==
  /\ Writeable
  /\ pending_inc' = IF exists(osdmap, osd) THEN osd_out(pending_inc, osd)
                    ELSE pending_inc
  /\ reply' = Reply("osd out", osd, <<>>, 0)
  /\ CommandFrame

\* "osd in <id>" that gives the device its full weight
osd_in_to_full_weight(inc, osd) ==
  IF is_in(osdmap, osd) THEN inc
  ELSE [inc EXCEPT !.new_weight = Put(@, osd, CEPH_OSD_IN)]

\* "osd in <id>"
osd_in(inc, osd) ==
  IF is_in(osdmap, osd) THEN inc
  ELSE IF osdmap.osd_xinfo[osd].old_weight > 0
  THEN [inc EXCEPT
          !.new_weight = Put(@, osd, osdmap.osd_xinfo[osd].old_weight),
          !.new_xinfo = Put(@, osd, [PendingXinfo(inc, osd) EXCEPT
                                       !.old_weight = 0])]
  ELSE [inc EXCEPT !.new_weight = Put(@, osd, CEPH_OSD_IN)]

OsdIn(osd) ==
  /\ Writeable
  /\ pending_inc' = IF exists(osdmap, osd) THEN osd_in(pending_inc, osd)
                    ELSE pending_inc
  /\ reply' = Reply("osd in", osd, <<>>, 0)
  /\ CommandFrame

\* "osd stop <id>"
osd_stop(inc, osd) ==
  IF is_stop(osdmap, osd) THEN inc
  ELSE IF is_down(osdmap, osd)
  THEN pending_osd_state_set(inc, osd, {CEPH_OSD_STOP})
  ELSE pending_osd_state_set(inc, osd, {CEPH_OSD_UP, CEPH_OSD_STOP})

OsdStop(osd) ==
  /\ Writeable
  /\ pending_inc' = IF exists(osdmap, osd) THEN osd_stop(pending_inc, osd)
                    ELSE pending_inc
  /\ reply' = Reply("osd stop", osd, <<>>, 0)
  /\ CommandFrame

\* prepare_command_osd_remove that stages before it looks at the device
prepare_command_osd_remove_staging_first(inc, id) ==
  [err |-> IF is_up(osdmap, id) THEN EBUSY ELSE 0,
   inc |-> [SetNewState(inc, id, get_state(osdmap, id)) EXCEPT
              !.new_uuid = Put(@, id, 0)]]

\* prepare_command_osd_remove that takes a staged down for a down
prepare_command_osd_remove_seeing_pending(inc, id) ==
  IF is_up(osdmap, id)
     /\ ~(Has(inc.new_state, id) /\ CEPH_OSD_UP \in inc.new_state[id])
  THEN [err |-> EBUSY, inc |-> inc]
  ELSE [err |-> 0,
        inc |-> [SetNewState(inc, id, get_state(osdmap, id)) EXCEPT
                   !.new_uuid = Put(@, id, 0)]]

\* prepare_command_osd_remove that leaves the uuid of the device alone
prepare_command_osd_remove_keeping_uuid(inc, id) ==
  IF is_up(osdmap, id) THEN [err |-> EBUSY, inc |-> inc]
  ELSE [err |-> 0, inc |-> SetNewState(inc, id, get_state(osdmap, id))]

\* prepare_command_osd_remove
prepare_command_osd_remove(inc, id) ==
  IF is_up(osdmap, id) THEN [err |-> EBUSY, inc |-> inc]
  ELSE [err |-> 0,
        inc |-> [SetNewState(inc, id, get_state(osdmap, id)) EXCEPT
                   !.new_uuid = Put(@, id, 0)]]

\* "osd rm <id>"
OsdRm(osd) ==
  /\ Writeable
  /\ LET r == IF exists(osdmap, osd)
              THEN prepare_command_osd_remove(pending_inc, osd)
              ELSE [err |-> 0, inc |-> pending_inc]
     IN /\ pending_inc' = r.inc
        /\ reply' = Reply("osd rm", osd, <<>>, r.err)
        /\ pending_metadata_rm' =
             IF exists(osdmap, osd) /\ r.err = 0
             THEN pending_metadata_rm \cup {osd} ELSE pending_metadata_rm
        /\ UNCHANGED sfs
        /\ UNCHANGED last_epoch_clean
        /\ pending_metadata' =
             IF exists(osdmap, osd) /\ r.err = 0
             THEN pending_metadata \ {osd} ELSE pending_metadata
  /\ UNCHANGED <<osdmap, store, has_osdmap_manifest, osdmap_manifest, paxos,
                 failure_info, last_osd_report, down_pending_out, now, conf>>
  /\ UNCHANGED <<PgVars, WaitVars>>

\* "osd add-<flag> <id>" (do_set) and "osd rm-<flag> <id>"
osd_flag(inc, do_set, flag, osd) ==
  IF do_set = (flag \in get_state(osdmap, osd))
  THEN pending_osd_state_clear(inc, osd, {flag})
  ELSE pending_osd_state_set(inc, osd, {flag})

OsdFlag(do_set, flag, osd) ==
  /\ Writeable
  /\ pending_inc' = IF exists(osdmap, osd)
                    THEN osd_flag(pending_inc, do_set, flag, osd)
                    ELSE pending_inc
  /\ reply' = Reply(IF do_set THEN "osd add-flag" ELSE "osd rm-flag", osd,
                    <<BitCode(flag)>>, 0)
  /\ CommandFrame

\* Paxos::plug and Paxos::unplug
plug(p) == [p EXCEPT !.plugged = TRUE]

unplug(p) == [p EXCEPT !.plugged = FALSE]

\* ceph_assert(paxos->is_plugged()) at the head of prepare_command_osd_new,
\* prepare_command_osd_destroy and prepare_command_osd_purge: r is what the
\* operation answers for the delta inc when it runs under p
WhilePlugged(p, inc, r) ==
  IF p.plugged THEN r ELSE [r EXCEPT !.err = ABORT, !.inc = inc]

\* paxos->plug(); err = prepare_command_...; paxos->unplug() that returns
\* with proposals plugged when the operation fails
UnderPlug_leaving_plugged(p, inc, r) ==
  LET plugged == plug(p)
      res == WhilePlugged(plugged, inc, r)
  IN [res |-> res, paxos |-> IF res.err < 0 THEN plugged ELSE unplug(plugged)]

\* paxos->plug(); err = prepare_command_...; paxos->unplug(): the answer of
\* the operation, which runs while proposals are plugged, and paxos as the
\* handler leaves it
UnderPlug(p, inc, r) ==
  LET plugged == plug(p)
  IN [res |-> WhilePlugged(plugged, inc, r), paxos |-> unplug(plugged)]

\* prepare_command_osd_destroy that leaves the uuid of the device
prepare_command_osd_destroy_keeping_uuid(inc, id, auth) ==
  IF ~exists(osdmap, id) THEN [err |-> ENOENT, inc |-> inc]
  ELSE IF is_destroyed(osdmap, id) THEN [err |-> 0, inc |-> inc]
  ELSE IF auth < 0 /\ auth # ENOENT THEN [err |-> auth, inc |-> inc]
  ELSE [err |-> 0, inc |-> SetNewState(inc, id, {CEPH_OSD_DESTROYED})]

\* prepare_command_osd_destroy; auth is what AuthMonitor's
\* validate_osd_destroy answered (0, ENOENT or another error)
prepare_command_osd_destroy(inc, id, auth) ==
  IF ~exists(osdmap, id) THEN [err |-> ENOENT, inc |-> inc]
  ELSE IF is_destroyed(osdmap, id) THEN [err |-> 0, inc |-> inc]
  ELSE IF auth < 0 /\ auth # ENOENT THEN [err |-> auth, inc |-> inc]
  ELSE [err |-> 0,
        inc |-> [SetNewState(inc, id, {CEPH_OSD_DESTROYED}) EXCEPT
                   !.new_uuid = Put(@, id, 0)]]

\* "osd destroy-actual <id> [--yes-i-really-mean-it]": once staged the
\* round is proposed at once (force_immediate_propose)
OsdDestroy(id, sure, auth) ==
  LET arg == <<IF sure THEN 1 ELSE 0, auth>>
      early == IF ~sure THEN EPERM
               ELSE IF ~exists(osdmap, id) THEN 0
               ELSE IF is_up(osdmap, id) THEN EBUSY
               ELSE IF is_destroyed(osdmap, id) THEN 0
               ELSE 1
      u == UnderPlug(paxos, pending_inc,
                     prepare_command_osd_destroy(pending_inc, id, auth))
      d == u.res
  IN
  /\ Writeable
  /\ IF early = 1 /\ d.err = 0
     THEN /\ ProposeWith(d.inc)
          /\ reply' = Reply("osd destroy", id, arg, 0)
     ELSE /\ reply' = Reply("osd destroy", id, arg,
                            IF early = 1 THEN d.err ELSE early)
          /\ pending_inc' = IF early = 1 THEN d.inc ELSE pending_inc
          /\ paxos' = IF early = 1 THEN u.paxos ELSE paxos
          /\ UNCHANGED <<PgVars, MdVars>>
  /\ UNCHANGED <<osdmap, store, has_osdmap_manifest, osdmap_manifest,
                 failure_info, last_osd_report, down_pending_out, now, conf>>
  /\ UNCHANGED WaitVars

\* prepare_command_osd_purge that destroys the device before it has checked
\* that the device can leave crush
prepare_command_osd_purge_destroying_first(inc, id, crush, auth) ==
  LET d == prepare_command_osd_destroy(inc, id, auth)
  IN IF crush < 0 /\ crush # ENOENT
     THEN [err |-> crush, inc |-> d.inc, removed |-> FALSE]
     ELSE IF d.err < 0 /\ d.err # ENOENT
     THEN [err |-> d.err, inc |-> d.inc, removed |-> FALSE]
     ELSE IF crush = ENOENT /\ ~exists(osdmap, id)
     THEN [err |-> ENOENT, inc |-> d.inc, removed |-> FALSE]
     ELSE [err |-> 0, inc |-> prepare_command_osd_remove(d.inc, id).inc,
           removed |-> TRUE]

\* prepare_command_osd_purge of a device that is not up; crush is what
\* _prepare_command_osd_crush_remove answered (0, ENOENT or another error)
\* and auth what AuthMonitor's validate_osd_destroy answered; removed tells
\* that prepare_command_osd_remove has run
prepare_command_osd_purge(inc, id, crush, auth) ==
  LET destroy == ~is_destroyed(osdmap, id)
      d == IF destroy THEN prepare_command_osd_destroy(inc, id, auth)
           ELSE [err |-> 0, inc |-> inc]
      may_be_idempotent ==
        crush = ENOENT /\ (destroy => d.err = ENOENT)
  IN IF crush < 0 /\ crush # ENOENT
     THEN [err |-> crush, inc |-> inc, removed |-> FALSE]
     ELSE IF d.err < 0 /\ d.err # ENOENT
     THEN [err |-> d.err, inc |-> d.inc, removed |-> FALSE]
     ELSE IF may_be_idempotent /\ ~exists(osdmap, id)
     THEN [err |-> ENOENT, inc |-> d.inc, removed |-> FALSE]
     ELSE [err |-> 0, inc |-> prepare_command_osd_remove(d.inc, id).inc,
           removed |-> TRUE]

\* the round e with the metadata operations of the sets md and rm in the
\* place of those of pending_metadata and pending_metadata_rm
WithMetadata(e, md, rm) ==
  LET kept == Len(e.tx) - 1 - Cardinality(pending_metadata)
                - Cardinality(pending_metadata_rm)
  IN [e EXCEPT !.tx = SubSeq(e.tx, 1, kept)
                        \o MetadataOps("put_metadata", md)
                        \o MetadataOps("erase_metadata", rm)
                        \o <<e.tx[Len(e.tx)]>>]

\* "osd purge-actual <id> [--yes-i-really-mean-it]": once staged the round
\* is proposed at once (force_immediate_propose)
OsdPurge(id, sure, crush, auth) ==
  LET arg == <<IF sure THEN 1 ELSE 0, crush, auth>>
      early == IF ~sure THEN EPERM
               ELSE IF ~exists(osdmap, id) THEN 0
               ELSE IF is_up(osdmap, id) THEN EBUSY
               ELSE 1
      u == UnderPlug(paxos, pending_inc,
                     prepare_command_osd_purge(pending_inc, id, crush, auth))
      p == u.res
  IN
  /\ Writeable
  /\ IF early = 1 /\ p.err = 0
     THEN /\ ProposeEncoded(p.inc,
                            WithMetadata(encode_pending(osdmap, p.inc),
                                         pending_metadata \ {id},
                                         pending_metadata_rm \cup {id}))
          /\ reply' = Reply("osd purge", id, arg, 0)
     ELSE /\ reply' = Reply("osd purge", id, arg,
                            IF early # 1 THEN early
                            ELSE IF p.err = ENOENT THEN 0 ELSE p.err)
          /\ pending_inc' = IF early = 1 THEN p.inc ELSE pending_inc
          /\ paxos' = IF early = 1 THEN u.paxos ELSE paxos
          /\ UNCHANGED <<PgVars, MdVars>>
  /\ UNCHANGED <<osdmap, store, has_osdmap_manifest, osdmap_manifest,
                 failure_info, last_osd_report, down_pending_out, now, conf>>
  /\ UNCHANGED WaitVars

(***************************************************************************)
(* Commands that wait for the pending round.  A handler that finds the     *)
(* change it would make already staged holds the request                   *)
(* (wait_for_finished_proposal with a C_RetryMessage): the request is      *)
(* dispatched again, from the start, when the round has finished.  The     *)
(* result of a handler is the error it answers at once (err, 0 when it     *)
(* goes to "update"), whether the request is held (wait) and the delta it  *)
(* leaves.                                                                 *)
(***************************************************************************)
EINVAL == 0 - 22
EEXIST == 0 - 17
\* what _prepare_command_osd_crush_remove answers for a bucket with items
\* and the tier commands for a pool with objects
ENOTEMPTY == 0 - 39
EAGAIN == 0 - 11

\* "osd pg-temp <pgid> [<id>...]" that replaces a staged entry
osd_pg_temp_overwriting(inc, pgid, id_vec) ==
  IF ~pg_exists(osdmap, pgid) THEN [err |-> ENOENT, wait |-> FALSE, inc |-> inc]
  ELSE [err |-> 0, wait |-> FALSE,
        inc |-> [inc EXCEPT !.new_pg_temp = Put(@, pgid, id_vec)]]

\* "osd pg-temp <pgid> [<id>...]"
osd_pg_temp(inc, pgid, id_vec) ==
  IF ~pg_exists(osdmap, pgid) THEN [err |-> ENOENT, wait |-> FALSE, inc |-> inc]
  ELSE IF Has(inc.new_pg_temp, pgid) THEN [err |-> 0, wait |-> TRUE, inc |-> inc]
  ELSE IF id_vec = <<>>
  THEN [err |-> 0, wait |-> FALSE,
        inc |-> [inc EXCEPT !.new_pg_temp = Put(@, pgid, <<>>)]]
  ELSE IF \E i \in DOMAIN id_vec : ~exists(osdmap, id_vec[i])
  THEN [err |-> ENOENT, wait |-> FALSE, inc |-> inc]
  ELSE IF Len(id_vec) < get_pg_pool_min_size(osdmap, pgid)
  THEN [err |-> EINVAL, wait |-> FALSE, inc |-> inc]
  ELSE IF Len(id_vec) > get_pg_pool_size(osdmap, pgid)
  THEN [err |-> EINVAL, wait |-> FALSE, inc |-> inc]
  ELSE [err |-> 0, wait |-> FALSE,
        inc |-> [inc EXCEPT !.new_pg_temp = Put(@, pgid, id_vec)]]

\* "osd primary-temp <pgid> <id>"; id -1 clears the entry
osd_primary_temp(inc, pgid, osd) ==
  IF ~pg_exists(osdmap, pgid) THEN [err |-> ENOENT, wait |-> FALSE, inc |-> inc]
  ELSE IF osd # 0 - 1 /\ ~(osd \in OSDS /\ exists(osdmap, osd))
  THEN [err |-> ENOENT, wait |-> FALSE, inc |-> inc]
  ELSE [err |-> 0, wait |-> FALSE,
        inc |-> [inc EXCEPT !.new_primary_temp = Put(@, pgid, osd)]]

\* the ids of id_vec without the repeated ones, in order
RECURSIVE Distinct(_)
Distinct(l) ==
  IF l = <<>> THEN <<>>
  ELSE LET d == Distinct(SubSeq(l, 1, Len(l) - 1))
           x == l[Len(l)]
       IN IF \E i \in DOMAIN d : d[i] = x THEN d ELSE Append(d, x)

\* "osd pg-upmap <pgid> <id>..." (rm = FALSE) and "osd rm-pg-upmap <pgid>"
osd_pg_upmap(inc, rm, pgid, id_vec) ==
  IF ~pg_exists(osdmap, pgid) THEN [err |-> ENOENT, wait |-> FALSE, inc |-> inc]
  ELSE IF pgid[1] \in inc.old_pools
  THEN [err |-> ENOENT, wait |-> FALSE, inc |-> inc]
  ELSE IF Has(inc.new_pg_upmap, pgid) \/ pgid \in inc.old_pg_upmap
  THEN [err |-> 0, wait |-> TRUE, inc |-> inc]
  ELSE IF rm
  THEN [err |-> 0, wait |-> FALSE,
        inc |-> [inc EXCEPT !.old_pg_upmap = @ \cup {pgid}]]
  ELSE IF Len(id_vec) < get_pg_pool_min_size(osdmap, pgid)
  THEN [err |-> EINVAL, wait |-> FALSE, inc |-> inc]
  ELSE IF Len(id_vec) > get_pg_pool_size(osdmap, pgid)
  THEN [err |-> EINVAL, wait |-> FALSE, inc |-> inc]
  ELSE IF \E i \in DOMAIN id_vec : ~exists(osdmap, id_vec[i])
  THEN [err |-> ENOENT, wait |-> FALSE, inc |-> inc]
  ELSE IF id_vec = <<>> THEN [err |-> EINVAL, wait |-> FALSE, inc |-> inc]
  ELSE [err |-> 0, wait |-> FALSE,
        inc |-> [inc EXCEPT !.new_pg_upmap = Put(@, pgid, Distinct(id_vec))]]

\* OSDMap::identify_osd and OSDMap::Incremental::identify_osd: the device
\* that has the uuid, -1 when there is none
identify_osd(m, uuid) ==
  IF \E o \in OSDS : exists(m, o) /\ m.osd_uuid[o] = uuid
  THEN Min({o \in OSDS : exists(m, o) /\ m.osd_uuid[o] = uuid})
  ELSE 0 - 1

pending_identify_osd(inc, uuid) ==
  IF \E o \in DOMAIN inc.new_uuid : inc.new_uuid[o] = uuid
  THEN Min({o \in DOMAIN inc.new_uuid : inc.new_uuid[o] = uuid})
  ELSE 0 - 1

\* validate_osd_create that does not look the uuid up in the committed map
validate_osd_create_unknown_uuid(inc, id, uuid, check_osd_exists) ==
  IF uuid = 0 THEN 0
  ELSE IF pending_identify_osd(inc, uuid) >= 0 THEN EAGAIN
  ELSE IF id >= 0 /\ Has(inc.new_state, id) THEN EAGAIN
  ELSE IF id >= 0 /\ check_osd_exists /\ exists(osdmap, id) THEN EINVAL
  ELSE 0

\* validate_osd_create; id is -1 when none is given and uuid 0 when none
\* is given; the positive 0 - EEXIST tells that the device exists with
\* this uuid
validate_osd_create(inc, id, uuid, check_osd_exists) ==
  IF uuid = 0 THEN 0
  ELSE IF pending_identify_osd(inc, uuid) >= 0 THEN EAGAIN
  ELSE IF identify_osd(osdmap, uuid) >= 0
  THEN (IF id >= 0 /\ identify_osd(osdmap, uuid) # id THEN EEXIST
        ELSE 0 - EEXIST)
  ELSE IF id >= 0 /\ Has(inc.new_state, id) THEN EAGAIN
  ELSE IF id >= 0 /\ check_osd_exists /\ exists(osdmap, id) THEN EINVAL
  ELSE 0

\* prepare_command_osd_create
prepare_command_osd_create(inc, id, uuid) ==
  IF id >= 0 /\ is_destroyed(osdmap, id) THEN EINVAL
  ELSE validate_osd_create(inc, id, uuid, TRUE)

\* the ids below max_osd that _allocate_osd_id may hand out
FreeIds(inc) ==
  {i \in 0 .. (osdmap.max_osd - 1) :
     /\ ~exists(osdmap, i)
     /\ ~Has(inc.new_up_client, i)
     /\ (~Has(inc.new_state, i) \/ CEPH_OSD_EXISTS \notin inc.new_state[i])}

\* _allocate_osd_id that grows the table whenever it can
_allocate_osd_id_growing(inc) ==
  [existing_id |-> 0 - 1,
   allocated_id |-> IF inc.new_max_osd < 0 THEN osdmap.max_osd
                    ELSE inc.new_max_osd]

\* _allocate_osd_id: the first free id below max_osd (existing_id), or
\* else the id past the end of the table (allocated_id)
_allocate_osd_id(inc) ==
  IF FreeIds(inc) # {}
  THEN [existing_id |-> Min(FreeIds(inc)), allocated_id |-> 0 - 1]
  ELSE [existing_id |-> 0 - 1,
        allocated_id |-> IF inc.new_max_osd < 0 THEN osdmap.max_osd
                         ELSE inc.new_max_osd]

\* the tail of do_osd_create ("out:"), without a device class
CreateOut(inc, new_id, uuid) ==
  LET grown == IF osdmap.max_osd <= new_id /\ inc.new_max_osd <= new_id
               THEN [inc EXCEPT !.new_max_osd = new_id + 1] ELSE inc
      staged == pending_osd_state_set(grown, new_id,
                                      {CEPH_OSD_EXISTS, CEPH_OSD_NEW})
  IN [id |-> new_id,
      inc |-> IF uuid # 0 THEN [staged EXCEPT !.new_uuid = Put(@, new_id, uuid)]
              ELSE staged]

\* do_osd_create: the id of the device and the delta that creates it
do_osd_create(inc, id, uuid) ==
  IF uuid # 0 /\ identify_osd(osdmap, uuid) >= 0
  THEN CreateOut(inc, identify_osd(osdmap, uuid), uuid)
  ELSE IF uuid # 0 /\ id >= 0 THEN CreateOut(inc, id, uuid)
  ELSE LET a == _allocate_osd_id(inc)
       IN IF a.existing_id >= 0
          THEN CreateOut([inc EXCEPT
                            !.new_weight = Put(@, a.existing_id, CEPH_OSD_OUT)],
                         a.existing_id, uuid)
          ELSE CreateOut([inc EXCEPT !.new_max_osd = a.allocated_id + 1],
                         a.allocated_id, uuid)

\* "osd create" that creates the device whether the uuid is known or not
osd_create_always_creating(inc, cmd_id, uuid) ==
  LET id == IF uuid # 0 THEN cmd_id ELSE 0 - 1
      err == prepare_command_osd_create(inc, id, uuid)
      d == do_osd_create(inc, id, uuid)
  IN IF err = EAGAIN THEN [err |-> 0, wait |-> TRUE, inc |-> inc, id |-> 0 - 1]
     ELSE IF err < 0 THEN [err |-> err, wait |-> FALSE, inc |-> inc, id |-> 0 - 1]
     ELSE [err |-> 0, wait |-> FALSE, inc |-> d.inc, id |-> d.id]

\* "osd create [<uuid> [<id>]]": the id counts only when a uuid is given
osd_create(inc, cmd_id, uuid) ==
  LET id == IF uuid # 0 THEN cmd_id ELSE 0 - 1
      err == prepare_command_osd_create(inc, id, uuid)
      d == do_osd_create(inc, id, uuid)
  IN IF err = EAGAIN THEN [err |-> 0, wait |-> TRUE, inc |-> inc, id |-> 0 - 1]
     ELSE IF err < 0 THEN [err |-> err, wait |-> FALSE, inc |-> inc, id |-> 0 - 1]
     ELSE IF err = 0 - EEXIST
     THEN [err |-> 0, wait |-> FALSE, inc |-> inc,
           id |-> identify_osd(osdmap, uuid)]
     ELSE [err |-> 0, wait |-> FALSE, inc |-> d.inc, id |-> d.id]

\* stands for an "osd new" that comes without secrets
NOSECRETS == 1

\* prepare_command_osd_new without a lockbox and a device class; auth is
\* NOSECRETS or what AuthMonitor's validate_osd_new answered for the
\* secrets (0, the positive 0 - EEXIST when they match, or an error)
prepare_command_osd_new(inc, cmd_id, uuid, auth) ==
  LET is_recreate_destroyed == cmd_id >= 0 /\ is_destroyed(osdmap, cmd_id)
      err == validate_osd_create(inc, cmd_id, uuid, ~is_recreate_destroyed)
      may_be_idempotent == err = 0 - EEXIST
      a == _allocate_osd_id(inc)
      id == IF may_be_idempotent THEN identify_osd(osdmap, uuid)
            ELSE IF cmd_id >= 0 THEN cmd_id
            ELSE IF a.existing_id >= 0 THEN a.existing_id
            ELSE a.allocated_id
  IN IF uuid = 0 THEN [err |-> EINVAL, inc |-> inc, id |-> 0 - 1]
     ELSE IF err < 0 THEN [err |-> err, inc |-> inc, id |-> 0 - 1]
     ELSE IF ~may_be_idempotent /\ cmd_id >= 0 /\ exists(osdmap, cmd_id)
             /\ ~is_destroyed(osdmap, cmd_id)
     THEN [err |-> EINVAL, inc |-> inc, id |-> 0 - 1]
     ELSE IF may_be_idempotent /\ auth = NOSECRETS
     THEN [err |-> 0 - EEXIST, inc |-> inc, id |-> id]
     ELSE IF auth < 0 THEN [err |-> auth, inc |-> inc, id |-> 0 - 1]
     ELSE IF may_be_idempotent /\ auth # NOSECRETS /\ auth # 0 - EEXIST
     THEN [err |-> EEXIST, inc |-> inc, id |-> 0 - 1]
     ELSE IF may_be_idempotent
     THEN [err |-> 0 - EEXIST, inc |-> inc, id |-> id]
     ELSE IF is_recreate_destroyed
     THEN [err |-> 0, id |-> id,
           inc |-> [pending_osd_state_set(
                      inc, id,
                      {CEPH_OSD_DESTROYED}
                        \cup (IF CEPH_OSD_NEW \notin get_state(osdmap, id)
                              THEN {CEPH_OSD_NEW} ELSE {})
                        \cup (IF CEPH_OSD_UP \in get_state(osdmap, id)
                              THEN {CEPH_OSD_UP} ELSE {}))
                      EXCEPT !.new_weight = Put(@, id, CEPH_OSD_OUT),
                             !.new_uuid = Put(@, id, uuid)]]
     ELSE [err |-> 0, id |-> id, inc |-> do_osd_create(inc, id, uuid).inc]

(***************************************************************************)
(* Cache tiers.  A pool lists the pools that are its tiers and a tier      *)
(* names its base; the overlay of a pool is the tier reads and writes go   *)
(* to.  No filesystem uses a pool, the pools are replicated and have no    *)
(* snapshots, and every member of the quorum supports cache pools.         *)
(***************************************************************************)
\* pg_pool_t::is_tier, has_tiers, has_read_tier, has_write_tier
is_tier(pi) == pi.tier_of >= 0
has_tiers(pi) == pi.tiers # {}
has_read_tier(pi) == pi.read_tier >= 0
has_write_tier(pi) == pi.write_tier >= 0

\* pg_pool_t::clear_tier
clear_tier(pi) ==
  [pi EXCEPT !.tier_of = 0 - 1, !.read_tier = 0 - 1, !.write_tier = 0 - 1]

\* Incremental::get_new_pool: the pending copy of the pool, made of the
\* committed one when the delta holds none yet
get_new_pool(inc, pool, orig) ==
  IF Has(inc.new_pools, pool) THEN inc
  ELSE [inc EXCEPT !.new_pools = Put(@, pool, orig)]

\* _check_become_tier that lets a tier become the base of a tier
_check_become_tier_of_a_tier(tier_pool_id, tier_pool, base_pool_id, base_pool) ==
  IF tier_pool_id \in base_pool.tiers THEN [ok |-> FALSE, err |-> 0]
  ELSE IF has_tiers(tier_pool) THEN [ok |-> FALSE, err |-> EINVAL]
  ELSE IF is_tier(tier_pool) THEN [ok |-> FALSE, err |-> EINVAL]
  ELSE [ok |-> TRUE, err |-> 0]

\* _check_become_tier, on the committed pools: whether the command
\* proceeds, and its answer when it does not.  Where the base lists the
\* tier the code asserts tier_pool->tier_of == base_pool_id
_check_become_tier(tier_pool_id, tier_pool, base_pool_id, base_pool) ==
  IF tier_pool_id \in base_pool.tiers THEN [ok |-> FALSE, err |-> 0]
  ELSE IF is_tier(base_pool) THEN [ok |-> FALSE, err |-> EINVAL]
  ELSE IF has_tiers(tier_pool) THEN [ok |-> FALSE, err |-> EINVAL]
  ELSE IF is_tier(tier_pool) THEN [ok |-> FALSE, err |-> EINVAL]
  ELSE [ok |-> TRUE, err |-> 0]

\* _check_remove_tier: its tests are those of a pool a filesystem uses
_check_remove_tier(base_pool_id, base_pool, tier_pool) ==
  [ok |-> TRUE, err |-> 0]

\* the pending copies of the base and of the tier, np and ntp of the code
WithNewPools(inc, pool_id, tierpool_id) ==
  get_new_pool(get_new_pool(inc, pool_id, osdmap.pools[pool_id]),
               tierpool_id, osdmap.pools[tierpool_id])

\* "osd tier add <pool> <tierpool> [--force-nonempty]", the tier pool
\* holding num_objects objects; cache tells "osd tier add-cache", which
\* takes no --force-nonempty and makes the tier the overlay as well
osd_tier_add(inc, cache, pool_id, tierpool_id, num_objects, force_nonempty) ==
  IF ~have_pg_pool(osdmap, pool_id) \/ ~have_pg_pool(osdmap, tierpool_id)
  THEN [err |-> ENOENT, wait |-> FALSE, inc |-> inc]
  ELSE
    LET p == osdmap.pools[pool_id]
        tp == osdmap.pools[tierpool_id]
        c == _check_become_tier(tierpool_id, tp, pool_id, p)
        i1 == WithNewPools(inc, pool_id, tierpool_id)
        i2 == [i1 EXCEPT
                 !.new_pools[pool_id].tiers = @ \cup {tierpool_id},
                 !.new_pools[pool_id].read_tier =
                   IF cache THEN tierpool_id ELSE @,
                 !.new_pools[pool_id].write_tier =
                   IF cache THEN tierpool_id ELSE @]
        i3 == [i2 EXCEPT !.new_pools[tierpool_id].tier_of = pool_id]
    IN IF ~c.ok THEN [err |-> c.err, wait |-> FALSE, inc |-> inc]
       ELSE IF num_objects # 0 /\ (cache \/ ~force_nonempty)
       THEN [err |-> ENOTEMPTY, wait |-> FALSE, inc |-> inc]
       ELSE IF tierpool_id \in i1.new_pools[pool_id].tiers
               \/ is_tier(i1.new_pools[tierpool_id])
       THEN [err |-> 0, wait |-> TRUE, inc |-> i1]
       ELSE [err |-> 0, wait |-> FALSE, inc |-> i3]

\* "osd tier remove <pool> <tierpool>"
osd_tier_remove(inc, pool_id, tierpool_id) ==
  IF ~have_pg_pool(osdmap, pool_id) \/ ~have_pg_pool(osdmap, tierpool_id)
  THEN [err |-> ENOENT, wait |-> FALSE, inc |-> inc]
  ELSE
    LET p == osdmap.pools[pool_id]
        tp == osdmap.pools[tierpool_id]
        c == _check_remove_tier(pool_id, p, tp)
        i1 == WithNewPools(inc, pool_id, tierpool_id)
        i2 == [i1 EXCEPT !.new_pools[pool_id].tiers = @ \ {tierpool_id}]
        i3 == [i2 EXCEPT !.new_pools[tierpool_id] = clear_tier(@)]
    IN IF ~c.ok THEN [err |-> c.err, wait |-> FALSE, inc |-> inc]
       ELSE IF tierpool_id \notin p.tiers
       THEN [err |-> 0, wait |-> FALSE, inc |-> inc]
       ELSE IF tp.tier_of # pool_id
       THEN [err |-> EINVAL, wait |-> FALSE, inc |-> inc]
       ELSE IF p.read_tier = tierpool_id
       THEN [err |-> EBUSY, wait |-> FALSE, inc |-> inc]
       ELSE IF \/ tierpool_id \notin i1.new_pools[pool_id].tiers
               \/ i1.new_pools[tierpool_id].tier_of # pool_id
               \/ i1.new_pools[pool_id].read_tier = tierpool_id
       THEN [err |-> 0, wait |-> TRUE, inc |-> i1]
       ELSE [err |-> 0, wait |-> FALSE, inc |-> i3]

\* "osd tier set-overlay <pool> <overlaypool>"
osd_tier_set_overlay(inc, pool_id, overlaypool_id) ==
  IF ~have_pg_pool(osdmap, pool_id) \/ ~have_pg_pool(osdmap, overlaypool_id)
  THEN [err |-> ENOENT, wait |-> FALSE, inc |-> inc]
  ELSE
    LET p == osdmap.pools[pool_id]
        i1 == get_new_pool(inc, pool_id, p)
        i2 == [i1 EXCEPT !.new_pools[pool_id].read_tier = overlaypool_id,
                         !.new_pools[pool_id].write_tier = overlaypool_id]
        i3 == get_new_pool(i2, overlaypool_id, osdmap.pools[overlaypool_id])
    IN IF overlaypool_id \notin p.tiers
       THEN [err |-> EINVAL, wait |-> FALSE, inc |-> inc]
       ELSE IF p.read_tier = overlaypool_id
       THEN [err |-> 0, wait |-> FALSE, inc |-> inc]
       ELSE IF has_read_tier(p)
       THEN [err |-> EINVAL, wait |-> FALSE, inc |-> inc]
       ELSE [err |-> 0, wait |-> FALSE, inc |-> i3]

\* "osd tier remove-overlay <pool>"
osd_tier_remove_overlay(inc, pool_id) ==
  IF ~have_pg_pool(osdmap, pool_id)
  THEN [err |-> ENOENT, wait |-> FALSE, inc |-> inc]
  ELSE
    LET p == osdmap.pools[pool_id]
        i1 == get_new_pool(inc, pool_id, p)
        np == i1.new_pools[pool_id]
        i2 == IF has_read_tier(np)
              THEN get_new_pool(i1, np.read_tier, osdmap.pools[np.read_tier])
              ELSE i1
        i3 == IF has_write_tier(np)
              THEN get_new_pool(i2, np.write_tier, osdmap.pools[np.write_tier])
              ELSE i2
        i4 == [i3 EXCEPT !.new_pools[pool_id].read_tier = 0 - 1,
                         !.new_pools[pool_id].write_tier = 0 - 1]
    IN IF ~has_read_tier(p) THEN [err |-> 0, wait |-> FALSE, inc |-> inc]
       ELSE IF ~_check_remove_tier(pool_id, p, p).ok
       THEN [err |-> 0, wait |-> FALSE, inc |-> inc]
       ELSE [err |-> 0, wait |-> FALSE, inc |-> i4]

\* what the handler of the command op does with the delta inc
PrepareCommand(inc, op, target, arg) ==
  CASE op = "osd pg-temp" -> osd_pg_temp(inc, target, arg)
    [] op = "osd primary-temp" -> osd_primary_temp(inc, target, arg[1])
    [] op = "osd pg-upmap" -> osd_pg_upmap(inc, FALSE, target, arg)
    [] op = "osd rm-pg-upmap" -> osd_pg_upmap(inc, TRUE, target, arg)
    [] op = "osd create" -> osd_create(inc, target, arg[1])
    [] op = "osd tier add" ->
         osd_tier_add(inc, FALSE, target, arg[1], arg[2], arg[3] = 1)
    [] op = "osd tier add-cache" ->
         osd_tier_add(inc, TRUE, target, arg[1], arg[2], FALSE)
    [] op = "osd tier remove" -> osd_tier_remove(inc, target, arg[1])
    [] op = "osd tier set-overlay" ->
         osd_tier_set_overlay(inc, target, arg[1])
    [] op = "osd tier remove-overlay" -> osd_tier_remove_overlay(inc, target)

\* the command op is dispatched, whether it arrives or is re-run: held, or
\* answered at once ("reply"), or answered when the round commits ("update")
CommandMsg(op, target, arg) ==
  LET r == PrepareCommand(pending_inc, op, target, arg)
  IN /\ Writeable
     /\ pending_inc' = r.inc
     /\ waiting' = IF r.wait THEN Append(waiting, Held(op, target, arg))
                   ELSE waiting
     /\ reply' = [Reply(op, target, arg, IF r.wait THEN HELD ELSE r.err)
                     EXCEPT !.id = IF conf.observe = 2 /\ "id" \in DOMAIN r
                                   THEN r.id ELSE @]
     /\ UNCHANGED <<osdmap, store, has_osdmap_manifest, osdmap_manifest,
                    paxos, failure_info, last_osd_report, down_pending_out,
                    now, conf>>
     /\ UNCHANGED <<PgVars, MdVars>>

PgTemp(pgid, id_vec) ==
  CommandMsg("osd pg-temp", pgid, id_vec) /\ UNCHANGED retrying

PrimaryTemp(pgid, osd) ==
  CommandMsg("osd primary-temp", pgid, <<osd>>) /\ UNCHANGED retrying

PgUpmap(pgid, id_vec) ==
  CommandMsg("osd pg-upmap", pgid, id_vec) /\ UNCHANGED retrying

RmPgUpmap(pgid) ==
  CommandMsg("osd rm-pg-upmap", pgid, <<>>) /\ UNCHANGED retrying

OsdCreate(id, uuid) ==
  CommandMsg("osd create", id, <<uuid>>) /\ UNCHANGED retrying

\* "osd new <uuid> [<id>]": once staged the round is proposed at once
\* (force_immediate_propose)
OsdNew(cmd_id, uuid, auth) ==
  LET u == UnderPlug(paxos, pending_inc,
                     prepare_command_osd_new(pending_inc, cmd_id, uuid, auth))
      r == u.res
      arg == <<uuid, auth>>
  IN
  /\ Writeable
  /\ IF r.err = 0
     THEN ProposeWith(r.inc)
     ELSE /\ pending_inc' = r.inc
          /\ paxos' = u.paxos
          /\ UNCHANGED <<PgVars, MdVars>>
  /\ reply' = [Reply("osd new", cmd_id, arg, IF r.err < 0 THEN r.err ELSE 0)
                 EXCEPT !.id = IF conf.observe = 2 THEN r.id ELSE @]
  /\ UNCHANGED <<osdmap, store, has_osdmap_manifest, osdmap_manifest,
                 failure_info, last_osd_report, down_pending_out, now, conf>>
  /\ UNCHANGED WaitVars

\* C_RetryMessage::_finish: the request held first is dispatched again
Redispatch ==
  /\ retrying # <<>>
  /\ retrying' = Tail(retrying)
  /\ LET h == Head(retrying)
     IN IF h.op = "boot"
        THEN BootMsg(h.target, h.arg[1], h.arg[2], h.arg[3])
        ELSE IF h.op = "failure"
        THEN FailureMsg(h.target, h.arg[1], h.arg[2], h.arg[3], h.arg[4],
                        h.arg[5] = 1)
        ELSE CommandMsg(h.op, h.target, h.arg)

(***************************************************************************)
(* The ledger: rounds, prunes and trims over a map that devices leave.     *)
(***************************************************************************)
LedgerOpen == get_last_committed < MaxEpoch

LedgerPropose == LedgerOpen /\ ProposePending

LedgerOsdOut == LedgerOpen /\ OsdOut(0)

LedgerPeonCommit == LedgerOpen /\ PeonCommit

LedgerTrim == \E e \in 0 .. MaxEpoch : MaybeTrim(e)

LedgerSetPrune == \E b \in BOOLEAN : SetPruneEnabled(b)

NextLedger ==
  \/ LedgerPropose
  \/ LedgerOsdOut
  \/ LedgerPeonCommit
  \/ CommitProposal
  \/ LoseLeadership
  \/ WinElection
  \/ PeonRefresh
  \/ LedgerTrim
  \/ LedgerSetPrune

SpecLedger == Init /\ [][NextLedger]_vars

\* C1: every epoch E with first_committed <= E <= last_committed has a full
\* map that get_version_full returns, read from the store or rebuilt from
\* the nearest lower pinned epoch, whatever rounds, prunes and trims came
\* before.
C1_EveryEpochRebuilds ==
  \A e \in get_first_committed .. get_last_committed :
    /\ get_version_full(store, osdmap_manifest, e).ret = 0
    /\ get_version_full(store, osdmap_manifest, e).bl.len # 0
    /\ decode(get_version_full(store, osdmap_manifest, e).bl).epoch = e

\* an epoch whose full map was pruned is rebuilt after a trim moved
\* first_committed
C1_Witness ==
  /\ get_first_committed > 1
  /\ store.has_manifest
  /\ \E e \in get_first_committed .. get_last_committed :
       /\ ~Has(store.full, e)
       /\ get_version_full(store, osdmap_manifest, e).ret = 0

\* C2: the round encoded for proposal carries epoch last_committed + 1 (the
\* assertion of encode_pending never fails); last_committed grows by one at
\* a time, the stored incrementals are those of first_committed ..
\* last_committed, each under its own epoch and never written twice, and
\* the in-memory map moves forward through each stored incremental in turn.
C2_EpochsGapless ==
  [][/\ paxos'.abort # "encode_pending"
     /\ paxos'.proposing = "round" =>
          /\ pending_inc'.epoch = store'.last_committed + 1
          /\ \A i \in DOMAIN paxos'.tx :
               paxos'.tx[i].op \in {"put_version", "put_last_committed"} =>
                 paxos'.tx[i].v = store'.last_committed + 1
     /\ store'.last_committed \in
          {store.last_committed, store.last_committed + 1}
     /\ DOMAIN store'.inc = store'.first_committed .. store'.last_committed
     /\ \A e \in DOMAIN store'.inc : store'.inc[e].epoch = e
     /\ \A e \in DOMAIN store.inc \cap DOMAIN store'.inc :
          store'.inc[e] = store.inc[e]
     /\ osdmap'.epoch >= osdmap.epoch
     /\ osdmap'.epoch <= store'.last_committed
     /\ osdmap' = ReplayIncs(store', osdmap, osdmap.epoch + 1,
                             osdmap'.epoch).map]_vars

\* a round for epoch 4 or later is being proposed after a trim has moved
\* first_committed past the first epoch
C2_Witness ==
  /\ paxos.proposing = "round"
  /\ pending_inc.epoch >= 4
  /\ get_first_committed > 1

\* C3: the full map of E + 1 is the full map of E with the stored
\* incremental of E + 1 applied, and that incremental's full_crc is the crc
\* of the full map of E + 1, for first_committed <= E < last_committed.
C3_FullIsPreviousPlusIncremental ==
  \A e \in get_first_committed .. (get_last_committed - 1) :
    /\ Has(store.inc, e + 1)
    /\ decode(get_version_full(store, osdmap_manifest,
                               e + 1).bl)
         = apply_incremental(
             decode(get_version_full(store, osdmap_manifest,
                                     e).bl),
             store.inc[e + 1])
    /\ store.inc[e + 1].have_crc
    /\ store.inc[e + 1].full_crc
         = get_crc(decode(get_version_full(
                            store, osdmap_manifest,
                            e + 1).bl))

\* two stored full maps in a row, the later one made by an incremental that
\* marks a device out
C3_Witness ==
  \E e \in get_first_committed .. (get_last_committed - 1) :
    /\ Has(store.full, e) /\ Has(store.full, e + 1)
    /\ Has(store.inc, e + 1)
    /\ store.inc[e + 1].new_weight # EmptyMap
    /\ get_first_committed > 1

(***************************************************************************)
(* The failure detector at work: reports, cancellations, ticks and the     *)
(* clock, over MaxRound rounds.                                            *)
(***************************************************************************)
MemberOpen == get_last_committed <= MaxRound

\* no boot is held for the round in flight or waits to be dispatched again
NoneHeld == waiting = <<>> /\ retrying = <<>>

\* a report about device 0, whose reporters 1 and 2 are in two subtrees, or
\* about device 2, whose reporters 0 and 1 share one; one device is
\* reported at a time
DetectorFailure ==
  /\ MemberOpen
  /\ \E target \in {0, 2}, from \in OSDS :
       /\ target # from
       /\ DOMAIN failure_info \subseteq {target}
       /\ Failure(target, from, osdmap.osd_addrs[from],
                  osdmap.osd_addrs[target], 0, FALSE)

DetectorBoot ==
  /\ MemberOpen
  /\ NoneHeld
  /\ Boot(0, 1, osdmap.osd_uuid[0], 1)

DetectorTick == MemberOpen /\ Tick

DetectorPropose == MemberOpen /\ ProposePending

NextDetector ==
  \/ DetectorFailure
  \/ DetectorBoot
  \/ DetectorTick
  \/ DetectorPropose
  \/ CommitProposal
  \/ Redispatch
  \/ AdvanceTime

SpecDetector == InitHandlers /\ [][NextDetector]_vars

\* the reporters of fi make at least mon_osd_min_down_reporters subtrees and
\* the earliest of their reports is a grace old at time t
FailureConfirmed(t, o, fi) ==
  /\ GraceElapsed(t, o, fi)
  /\ Cardinality({ReporterSubtree(r) : r \in DOMAIN fi.reporters})
       >= mon_osd_min_down_reporters

\* device o is up in the map m and the delta inc takes it down
StagedDown(m, inc, o) ==
  /\ is_up(m, o)
  /\ Has(inc.new_state, o)
  /\ CEPH_OSD_UP \in inc.new_state[o]

\* this step is a failure report that added a reporter of device o
ReportAdded(o) ==
  /\ reply'.op = "failure"
  /\ Has(failure_info', o)
  /\ ~Has(failure_info, o) \/ failure_info'[o] # failure_info[o]

\* C9: a report evaluated by check_failure stages the down of its device
\* if and only if the earliest report is a grace old and the reporters make
\* at least min_reporters subtrees, reporters of one subtree counting once;
\* otherwise nothing is staged and the report stays in failure_info.  A
\* tick evaluates every reported device the guard lets it mark down.
C9_DownIffGraceAndGroups ==
  [][/\ \A o \in OSDS :
          ReportAdded(o) =>
            pending_inc' =
              IF FailureConfirmed(now, o, failure_info'[o])
                 /\ ~StagedDown(osdmap, pending_inc, o)
              THEN SetNewState(pending_inc, o, {CEPH_OSD_UP})
              ELSE pending_inc
     /\ reply'.op = "tick" /\ last_osd_report' = last_osd_report =>
          /\ failure_info' = failure_info
          /\ \A o \in OSDS :
               /\ ~StagedDown(osdmap, pending_inc, o)
                    /\ StagedDown(osdmap, pending_inc', o) =>
                    /\ Has(failure_info, o)
                    /\ FailureConfirmed(now, o, failure_info[o])
               /\ Has(failure_info, o) /\ is_up(osdmap, o)
                    /\ ~is_nodown(osdmap, o)
                    /\ FailureConfirmed(now, o, failure_info[o])
                    /\ (get_num_up_osds(osdmap)
                          - Cardinality({p \in OSDS \ {o} :
                                StagedDown(osdmap, pending_inc', p)}))
                         * mon_osd_min_up_ratio_den
                       >= mon_osd_min_up_ratio_num * get_num_osds(osdmap) =>
                    StagedDown(osdmap, pending_inc', o)]_vars

\* two reporters of two subtrees reported a laggy device 0 whose earliest
\* report is osd_heartbeat_grace old, and the lagginess keeps it up
C9_Witness ==
  /\ reply.op = "failure"
  /\ osdmap.osd_xinfo[0].laggy_probability > 0
  /\ osdmap.osd_xinfo[0].laggy_interval > 0
  /\ Has(failure_info, 0)
  /\ DOMAIN failure_info[0].reporters = {1, 2}
  /\ now - get_failed_since(failure_info[0]) >= osd_heartbeat_grace
  /\ ~StagedDown(osdmap, pending_inc, 0)

(***************************************************************************)
(* Down stimuli of every kind against the guard can_mark_down: reports,    *)
(* forced failures, mark-me-down, a boot from another address, the         *)
(* operator's "osd down" and "osd stop", ticks, and the nodown flag.       *)
(***************************************************************************)
DownOpen == get_last_committed < MaxRound

MaxDownTime == 2

\* device 1 is reported dead at once by device 2, device 0 is reported by
\* devices 1 and 2
DownFailure ==
  /\ DownOpen
  /\ \/ Failure(1, 2, osdmap.osd_addrs[2], osdmap.osd_addrs[1], 0, TRUE)
     \/ \E from \in {1, 2} :
          Failure(0, from, osdmap.osd_addrs[from], osdmap.osd_addrs[0], 0, FALSE)

DownMarkMeDown ==
  /\ DownOpen
  /\ \E from \in OSDS : MarkMeDown(from, osdmap.osd_addrs[from])

DownBoot == DownOpen /\ NoneHeld /\ Boot(0, 2, osdmap.osd_uuid[0], 0)

DownOsdDown == DownOpen /\ OsdDown(0, FALSE)

DownOsdStop == DownOpen /\ OsdStop(0)

DownFlag == DownOpen /\ OsdFlag(TRUE, CEPH_OSD_NODOWN, 0)

DownTick == DownOpen /\ Tick

DownPropose == DownOpen /\ ProposePending

DownAdvance == DownOpen /\ now < MaxDownTime /\ AdvanceTime

NextDown ==
  \/ DownFailure
  \/ DownMarkMeDown
  \/ DownBoot
  \/ DownOsdDown
  \/ DownOsdStop
  \/ DownFlag
  \/ DownTick
  \/ DownPropose
  \/ DownAdvance
  \/ CommitProposal
  \/ Redispatch

SpecDown == InitHandlers /\ [][NextDown]_vars

\* this step stages the down of device o
StagesDown(o) ==
  /\ osdmap' = osdmap
  /\ ~StagedDown(osdmap, pending_inc, o)
  /\ StagedDown(osdmap, pending_inc', o)

\* the devices up in the committed map less the downs staged in inc
UpAfterStaged(inc) ==
  get_num_up_osds(osdmap) - get_net_marked_down(inc, osdmap)

\* n devices up of the committed map's total are at or above the floor
AtUpFloor(n) ==
  n * mon_osd_min_up_ratio_den >= mon_osd_min_up_ratio_num * get_num_osds(osdmap)

\* the handlers that ask can_mark_down before they stage a down
GuardedDown == {"failure", "mark_me_down", "tick"}

\* C4: a down stimulus that asks can_mark_down is accepted only if the up
\* ratio before it, counting the downs already staged in the round but not
\* the one it asks for, is at or above min_up_ratio; the downs a step stages
\* under the guard leave the prospective map at most one device short of
\* the floor.
C4_RatioBeforeTheDown ==
  [][reply'.op \in GuardedDown /\ (\E o \in OSDS : StagesDown(o)) =>
       AtUpFloor(UpAfterStaged(pending_inc)
                   - (Cardinality({o \in OSDS : StagesDown(o)}) - 1))]_vars

\* a mark-me-down was handled with the staged downs already below the floor
\* and a device still up
C4_Witness ==
  /\ reply.op = "mark_me_down"
  /\ ~AtUpFloor(UpAfterStaged(pending_inc))
  /\ \E o \in OSDS : is_up(osdmap, o) /\ ~StagedDown(osdmap, pending_inc, o)

\* C4 as stated: the down asked for is counted too, so that the staged
\* downs never take the prospective map below the floor
C4_RatioAfterTheDown ==
  [][reply'.op \in GuardedDown /\ (\E o \in OSDS : StagesDown(o)) =>
       AtUpFloor(UpAfterStaged(pending_inc)
                   - Cardinality({o \in OSDS : StagesDown(o)}))]_vars

\* C5: a failure report, mark-me-down or tick stages the down of a device
\* only if the device's nodown flag is unset and the up ratio, counting the
\* downs staged before the step, is at or above the floor; only a boot from
\* a changed address and the operator's "osd down" and "osd stop" stage a
\* down without that.
C5_DownIsGuardedButForBootAndOperator ==
  [][\A o \in OSDS :
       StagesDown(o) =>
         \/ /\ ~is_nodown(osdmap, o)
            /\ AtUpFloor(UpAfterStaged(pending_inc))
         \/ reply'.op \in {"boot", "osd down", "osd stop"}]_vars

\* with nodown set on device 0, a mark-me-down left device 0 up while the
\* down of device 1 is staged
C5_Witness ==
  /\ reply.op = "mark_me_down"
  /\ is_nodown(osdmap, 0)
  /\ ~StagedDown(osdmap, pending_inc, 0)
  /\ StagedDown(osdmap, pending_inc, 1)

\* C5 as stated: whichever stimulus stages the down, the guard holds
C5_EveryDownIsGuarded ==
  [][\A o \in OSDS :
       StagesDown(o) =>
         /\ ~is_nodown(osdmap, o)
         /\ AtUpFloor(UpAfterStaged(pending_inc))]_vars

(***************************************************************************)
(* Beacons and the timeout sweep of tick, across changes of leader.        *)
(***************************************************************************)
BeaconOpen == get_last_committed < MaxRound

BeaconBeacon ==
  /\ BeaconOpen
  /\ \E from \in {0, 1} : Beacon(from, osdmap.osd_addrs[from])

BeaconTick == BeaconOpen /\ Tick

BeaconPropose == BeaconOpen /\ ProposePending

BeaconRestart == BeaconOpen /\ LoseLeadership

NextBeacon ==
  \/ BeaconBeacon
  \/ BeaconTick
  \/ BeaconPropose
  \/ BeaconRestart
  \/ WinElection
  \/ CommitProposal
  \/ AdvanceTime

SpecBeacon == InitHandlers /\ [][NextBeacon]_vars

\* C10: a tick stages the down of an unreported up device only if the
\* monitor has been leader for mon_osd_report_timeout and the last beacon
\* recorded for the device is more than mon_osd_report_timeout old; before
\* that the sweep touches nothing; a device the sweep sees for the first
\* time gets the current time as its last beacon and stays up; a restart
\* clears the recorded times.
C10_SweepNeedsLeaderGraceAndSilence ==
  [][/\ reply'.op = "tick" =>
          /\ now - paxos.leader_since < mon_osd_report_timeout =>
               last_osd_report' = last_osd_report
          /\ \A o \in OSDS :
               /\ StagesDown(o) /\ ~Has(failure_info, o) =>
                    /\ now - paxos.leader_since >= mon_osd_report_timeout
                    /\ Has(last_osd_report, o)
                    /\ now - last_osd_report[o] > mon_osd_report_timeout
               /\ now - paxos.leader_since >= mon_osd_report_timeout
                    /\ is_up(osdmap, o) /\ ~Has(last_osd_report, o) =>
                    /\ Has(last_osd_report', o)
                    /\ last_osd_report'[o] = now
                    /\ ~StagesDown(o)
     /\ paxos.leader /\ ~paxos'.leader => last_osd_report' = EmptyMap]_vars

\* a tick found device 0 silent for too long, device 1 heard of in time and
\* device 2 never heard of
C10_Witness ==
  /\ reply.op = "tick"
  /\ StagedDown(osdmap, pending_inc, 0)
  /\ ~StagedDown(osdmap, pending_inc, 1)
  /\ ~StagedDown(osdmap, pending_inc, 2)
  /\ Has(last_osd_report, 1) /\ last_osd_report[1] < now
  /\ Has(last_osd_report, 2) /\ last_osd_report[2] = now

(***************************************************************************)
(* Mark-outs: the operator's "osd out" and tick's automatic mark-out of    *)
(* the devices that stayed down, against the guard can_mark_out.           *)
(***************************************************************************)
OutOpen == get_last_committed < MaxRound

OutMarkMeDown ==
  /\ OutOpen
  /\ \E from \in {0, 1} : MarkMeDown(from, osdmap.osd_addrs[from])

OutOsdOut == OutOpen /\ \E osd \in {0, 2} : OsdOut(osd)

OutFlag == OutOpen /\ OsdFlag(TRUE, CEPH_OSD_NOOUT, 0)

OutTick == OutOpen /\ Tick

OutPropose == OutOpen /\ ProposePending

OutAdvance == OutOpen /\ now < MaxDownTime /\ AdvanceTime

NextOut ==
  \/ OutMarkMeDown
  \/ OutOsdOut
  \/ OutFlag
  \/ OutTick
  \/ OutPropose
  \/ OutAdvance
  \/ CommitProposal

SpecOut == InitHandlers /\ [][NextOut]_vars

\* device o is in in the map m and the delta inc marks it out
StagedOut(m, inc, o) ==
  /\ exists(m, o) /\ is_in(m, o)
  /\ Has(inc.new_weight, o)
  /\ inc.new_weight[o] = CEPH_OSD_OUT

\* this step stages the mark-out of device o
StagesOut(o) ==
  /\ osdmap' = osdmap
  /\ ~StagedOut(osdmap, pending_inc, o)
  /\ StagedOut(osdmap, pending_inc', o)

\* the devices in in the committed map less the mark-outs staged in inc
InAfterStaged(inc) ==
  get_num_in_osds(osdmap) - get_net_marked_out(inc, osdmap)

\* n devices in of the committed map's total are at or above the floor
AtInFloor(n) ==
  n * mon_osd_min_in_ratio_den >= mon_osd_min_in_ratio_num * get_num_osds(osdmap)

\* C6: tick marks out a device that stayed down only if the device's noout
\* flag is unset and the in ratio before that mark-out, counting the
\* mark-outs staged earlier in the round, is at or above min_in_ratio; the
\* operator's "osd out" is staged without either check; nothing else marks
\* a device out.
C6_TickOutIsGuardedOperatorOutIsNot ==
  [][\A o \in OSDS :
       StagesOut(o) =>
         \/ reply'.op = "osd out"
         \/ /\ reply'.op = "tick"
            /\ is_down(osdmap, o)
            /\ ~is_noout(osdmap, o)
            /\ AtInFloor(InAfterStaged(pending_inc)
                           - (Cardinality({p \in OSDS : StagesOut(p)}) - 1))]_vars

\* a tick left the down device 0 in because of its noout flag and marked the
\* down device 1 out
C6_Witness ==
  /\ reply.op = "tick"
  /\ is_noout(osdmap, 0) /\ is_down(osdmap, 0) /\ is_in(osdmap, 0)
  /\ ~StagedOut(osdmap, pending_inc, 0)
  /\ is_down(osdmap, 1)
  /\ StagedOut(osdmap, pending_inc, 1)

\* C6 as stated: the operator's mark-out is guarded as tick's is, and the
\* mark-out asked for is counted in the ratio
C6_EveryOutIsGuarded ==
  [][\A o \in OSDS :
       StagesOut(o) =>
         /\ ~is_noout(osdmap, o)
         /\ AtInFloor(InAfterStaged(pending_inc)
                        - Cardinality({p \in OSDS : StagesOut(p)}))]_vars

(***************************************************************************)
(* "osd destroy-actual" of devices that went down, some of them marked out *)
(* before.                                                                 *)
(***************************************************************************)
DestroyOpen == get_last_committed <= MaxRound

DestroyMarkMeDown ==
  /\ DestroyOpen
  /\ \E from \in {0, 1} : MarkMeDown(from, osdmap.osd_addrs[from])

DestroyOsdOut == DestroyOpen /\ OsdOut(1)

DestroyOsdDestroy ==
  /\ DestroyOpen
  /\ \E id \in {0, 1}, sure \in BOOLEAN, auth \in {0, ENOENT, EPERM} :
       OsdDestroy(id, sure, auth)

DestroyPropose == DestroyOpen /\ ProposePending

NextDestroy ==
  \/ DestroyMarkMeDown
  \/ DestroyOsdOut
  \/ DestroyOsdDestroy
  \/ DestroyPropose
  \/ CommitProposal

SpecDestroy == InitObserved /\ [][NextDestroy]_vars

\* this step is the handler of "osd destroy-actual" staging and proposing
DestroyStaged ==
  /\ reply'.op = "osd destroy"
  /\ paxos.proposing = "" /\ paxos'.proposing = "round"

\* this step commits the round "osd destroy-actual" proposed
DestroyCommitted ==
  /\ reply.op = "osd destroy"
  /\ paxos.proposing = "round"
  /\ osdmap'.epoch = osdmap.epoch + 1

\* C8: destroy is staged only for a device that exists and is down in the
\* committed map; it stages the destroyed bit and a zero uuid and leaves
\* the staged weights alone; once committed the device is destroyed, has no
\* uuid, still exists and has the weight it would have had without the
\* destroy.
C8_DestroyKeepsWeight ==
  [][/\ DestroyStaged =>
          /\ reply'.ret = 0
          /\ exists(osdmap, reply'.osd) /\ is_down(osdmap, reply'.osd)
          /\ ~is_destroyed(osdmap, reply'.osd)
          /\ pending_inc'.new_state =
               Put(pending_inc.new_state, reply'.osd, {CEPH_OSD_DESTROYED})
          /\ pending_inc'.new_uuid = Put(pending_inc.new_uuid, reply'.osd, 0)
          /\ pending_inc'.new_weight = pending_inc.new_weight
     /\ DestroyCommitted =>
          /\ is_destroyed(osdmap', reply.osd)
          /\ osdmap'.osd_uuid[reply.osd] = 0
          /\ exists(osdmap', reply.osd)
          /\ osdmap'.osd_weight[reply.osd] =
               IF Has(pending_inc.new_weight, reply.osd)
               THEN pending_inc.new_weight[reply.osd]
               ELSE osdmap.osd_weight[reply.osd]
     /\ reply'.op = "osd destroy" /\ is_up(osdmap, reply'.osd) =>
          /\ reply'.ret = IF reply'.arg[1] = 1 THEN EBUSY ELSE EPERM
          /\ pending_inc' = pending_inc]_vars

\* device 0 went down, was destroyed and is still in
C8_Witness ==
  /\ is_destroyed(osdmap, 0)
  /\ is_down(osdmap, 0)
  /\ osdmap.osd_uuid[0] = 0
  /\ is_in(osdmap, 0)

\* C8 as stated: the committed destroy leaves the device with a cleared
\* weight
C8_DestroyClearsWeight ==
  [][DestroyCommitted =>
       /\ is_destroyed(osdmap', reply.osd)
       /\ osdmap'.osd_uuid[reply.osd] = 0
       /\ exists(osdmap', reply.osd)
       /\ osdmap'.osd_weight[reply.osd] = CEPH_OSD_OUT]_vars

(***************************************************************************)
(* The same stimulus sent twice: boots, failure reports, mark-me-down and  *)
(* the operator's "osd down" and "osd out", with all answers observed.     *)
(***************************************************************************)
IdemOpen == get_last_committed < MaxRound

IdemBoot ==
  /\ IdemOpen
  /\ NoneHeld
  /\ \E addr \in Addrs : Boot(0, addr, osdmap.osd_uuid[0], 0)

IdemFailure ==
  /\ IdemOpen
  /\ \E from \in {0, 2} :
       Failure(1, from, osdmap.osd_addrs[from], osdmap.osd_addrs[1], 0, FALSE)

IdemMarkMeDown == IdemOpen /\ MarkMeDown(0, osdmap.osd_addrs[0])

IdemOsdDown == IdemOpen /\ OsdDown(2, FALSE)

IdemOsdOut == IdemOpen /\ OsdOut(2)

IdemPropose == IdemOpen /\ ProposePending

IdemAdvance == IdemOpen /\ now < MaxDownTime /\ AdvanceTime

NextIdem ==
  \/ IdemBoot
  \/ IdemFailure
  \/ IdemMarkMeDown
  \/ IdemOsdDown
  \/ IdemOsdOut
  \/ IdemPropose
  \/ IdemAdvance
  \/ CommitProposal
  \/ Redispatch

SpecIdem == InitObserved /\ [][NextIdem]_vars

ProposalDue ==
  pending_inc # create_pending(osdmap) \/ pending_created_pgs # {}

CreatingPool ==
  \E pg_num \in {1, MaxPgNum} : PoolCreate(pg_num, 2, 1)

CreatingPgCreated ==
  \E from \in {0}, addr \in {1, 2} :
    \E pgid \in DOMAIN creating_pgs.pgs : PgCreated(from, addr, pgid)

CreatingPropose == ProposalDue /\ ProposePending

NextCreating ==
  \/ CreatingPool
  \/ CreatingPgCreated
  \/ CreatingPropose
  \/ CommitProposal

SpecCreating == Init /\ [][NextCreating]_vars

\* what a transaction writes under the key "creating"
CreatingOf(tx) ==
  tx[CHOOSE i \in DOMAIN tx : tx[i].op = "put_creating"].creating

\* the step encodes a round
EncodesRound == paxos.proposing = "" /\ paxos'.proposing = "round"

\* where the queued range of pool p started before the round
QueuedFrom(p) ==
  IF Has(creating_pgs.queue, p) THEN creating_pgs.queue[p].start ELSE 0

\* C11: a round materializes at most max(1, mon_osd_max_creating_pgs) PGs,
\* each with the epoch of the round as its creation epoch, and never has
\* more PGs than that being created unless they were before; of a queued
\* range the materialized PGs are the lowest ones, and what was not
\* materialized stays queued with start moved past them and end unchanged
C11_RoundMaterializesBounded ==
  [][EncodesRound =>
       LET cp == CreatingOf(paxos'.tx)
           fresh == (DOMAIN cp.pgs) \ DOMAIN creating_pgs.pgs
       IN /\ Cardinality(fresh) <= MaxCreating
          /\ fresh # {} => Cardinality(DOMAIN cp.pgs) <= MaxCreating
          /\ \A g \in fresh : cp.pgs[g] = pending_inc'.epoch
          /\ \A p \in DOMAIN cp.queue :
               /\ cp.queue[p].start >= QueuedFrom(p)
               /\ cp.queue[p].start < cp.queue[p].end
               /\ Has(creating_pgs.queue, p) =>
                    cp.queue[p].end = creating_pgs.queue[p].end
               /\ \A ps \in 0 .. (MaxPgNum - 1) :
                    /\ (ps >= QueuedFrom(p) /\ ps < cp.queue[p].start)
                         => <<p, ps>> \in fresh
                    /\ (ps >= cp.queue[p].start /\ ps < cp.queue[p].end)
                         => <<p, ps>> \notin DOMAIN cp.pgs
          /\ \A p \in (DOMAIN creating_pgs.queue) \ DOMAIN cp.queue :
               \A ps \in 0 .. (MaxPgNum - 1) :
                 (ps >= creating_pgs.queue[p].start
                  /\ ps < creating_pgs.queue[p].end) => <<p, ps>> \in fresh]_vars

\* a round is being proposed that materialized part of a pool's range and
\* left the rest of it queued
C11_Witness ==
  /\ paxos.proposing = "round"
  /\ \E p \in DOMAIN CreatingOf(paxos.tx).queue :
       /\ CreatingOf(paxos.tx).queue[p].start > 0
       /\ Cardinality(DOMAIN CreatingOf(paxos.tx).pgs) = MaxCreating

(***************************************************************************)
(* The same steps with the scheduling the code gives them: an armed        *)
(* proposal timer fires, a proposal commits, and a device that is creating *)
(* a PG reports it created.  For the round and the commit weak fairness is *)
(* written out, []<>~ENABLED <<A>>_vars \/ []<><<A>>_vars, with the        *)
(* enabling condition of the step as a state predicate.                    *)
(***************************************************************************)
ProposeEnabled == ProposalDue /\ Writeable

CommitEnabled == paxos.proposing # "" /\ paxos.abort = ""

SpecDrain ==
  /\ Init
  /\ [][NextCreating]_vars
  /\ WF_vars(CreatingPgCreated)
  /\ ([]<>~ProposeEnabled \/ []<><<CreatingPropose>>_vars)
  /\ ([]<>~CommitEnabled \/ []<><<CommitProposal>>_vars)

\* C12 as amended: PG-create entries that stay queued after a round are
\* materialized by later rounds once PGs of the earlier batches were
\* reported created, so that a queue that is not empty is empty after
\* finitely many rounds
C12_QueueDrainsAsPgsAreCreated ==
  (creating_pgs.queue # EmptyMap) ~> (creating_pgs.queue = EmptyMap)

\* the rest of a range was materialized by a round after the one that
\* materialized its first part: PGs of two different creation epochs of
\* one pool are being created and the pool is not queued any more
C12_Witness ==
  /\ \E g, h \in DOMAIN creating_pgs.pgs :
       g[1] = h[1] /\ creating_pgs.pgs[g] < creating_pgs.pgs[h]
       /\ ~Has(creating_pgs.queue, g[1])
  /\ creating_pgs.queue = EmptyMap

\* C12 as stated: every round that finds entries queued materializes
\* further entries, whether or not a PG was reported created
C12_EveryRoundMaterializes ==
  [][(EncodesRound /\ creating_pgs.queue # EmptyMap) =>
       (DOMAIN CreatingOf(paxos'.tx).pgs) \ DOMAIN creating_pgs.pgs # {}]_vars

(***************************************************************************)
(* The pruner, under the steps of the ledger.                              *)
(***************************************************************************)
\* the epochs whose key of kind op the transaction tx erases
Erased(tx, op) == {tx[i].v : i \in {j \in DOMAIN tx : tx[j].op = op}}

\* the manifest the transaction tx writes
ManifestOf(tx) ==
  tx[CHOOSE i \in DOMAIN tx : tx[i].op = "put_manifest"].pinned

\* the transaction tx is one of a prune round
Prunes(tx) == \E i \in DOMAIN tx : tx[i].op = "put_manifest"

\* C13: a prune round erases full maps only: no incremental, no full map
\* of a pinned epoch, no full map of the last mon_min_osdmap_epochs epochs;
\* when the round commits the incrementals are all there and the full maps
\* of the pinned and of the most recent epochs are stored
C13_PruneErasesOnlyUnpinnedOldFulls ==
  [][/\ (EncodesRound /\ Prunes(paxos'.tx)) =>
          /\ Erased(paxos'.tx, "erase_version") = {}
          /\ Erased(paxos'.tx, "erase_manifest") = {}
          /\ \A v \in Erased(paxos'.tx, "erase_full") :
               /\ v \notin ManifestOf(paxos'.tx)
               /\ v \notin osdmap_manifest
               /\ v > get_first_committed
               /\ v <= get_last_committed - conf.mon_min_osdmap_epochs
     /\ (paxos.proposing = "round" /\ Prunes(paxos.tx)
         /\ store' # store /\ paxos'.abort = "") =>
          /\ DOMAIN store'.inc = (DOMAIN store.inc) \cup {store'.last_committed}
          /\ \A v \in store'.manifest : Has(store'.full, v)
          /\ \A v \in (store'.last_committed - conf.mon_min_osdmap_epochs)
                        .. store'.last_committed : Has(store'.full, v)
          /\ (DOMAIN store.full) \ (DOMAIN store'.full)
               = Erased(paxos.tx, "erase_full")]_vars

\* a prune round that erases full maps has committed: a full map between
\* two pinned epochs is gone while its incremental is stored
C13_Witness ==
  /\ store.has_manifest
  /\ \E v \in DOMAIN store.inc :
       /\ ~Has(store.full, v)
       /\ v > get_first_pinned(store.manifest)
       /\ v < get_last_pinned(store.manifest)

\* C14: while a manifest is stored, first_committed is pinned and is the
\* lowest pinned epoch, also after a prune round and after a trim that
\* moved first_committed; the manifest the monitor holds is the stored one
\* whenever no proposal is in flight
C14_FirstCommittedIsFirstPinned ==
  /\ store.has_manifest =>
       /\ store.first_committed \in store.manifest
       /\ get_first_pinned(store.manifest) = store.first_committed
  /\ (Writeable /\ has_osdmap_manifest) =>
       /\ store.has_manifest
       /\ osdmap_manifest = store.manifest

\* a manifest is stored after a trim has moved first_committed past the
\* epoch that was the first pinned one
C14_Witness ==
  /\ store.has_manifest
  /\ store.first_committed > 1
  /\ Cardinality(store.manifest) > 1

\* the pins a prune round adds to the manifest the round started from
NewPins(tx) == ManifestOf(tx) \ (osdmap_manifest \cup {get_first_committed})

\* C15: a prune round puts at most mon_osdmap_full_prune_txsize deletions
\* of full maps into the transaction, and every pin it adds is
\* mon_osdmap_full_prune_interval above the pin before it, the first of
\* them above the last pin of the manifest it started from
C15_PruneWithinBudgetAtInterval ==
  [][(EncodesRound /\ Prunes(paxos'.tx)) =>
       /\ Cardinality(Erased(paxos'.tx, "erase_full"))
            <= conf.mon_osdmap_full_prune_txsize
       /\ Cardinality({i \in DOMAIN paxos'.tx : paxos'.tx[i].op = "erase_full"})
            <= conf.mon_osdmap_full_prune_txsize
       /\ NewPins(paxos'.tx) # {}
       /\ \A v \in NewPins(paxos'.tx) :
            /\ v - conf.mon_osdmap_full_prune_interval \in ManifestOf(paxos'.tx)
            /\ v - conf.mon_osdmap_full_prune_interval
                 >= get_last_pinned(osdmap_manifest \cup {get_first_committed})
            /\ \A w \in ManifestOf(paxos'.tx) :
                 ~(w > v - conf.mon_osdmap_full_prune_interval /\ w < v)]_vars

\* a prune round is being proposed that adds a pin to a manifest which
\* had pins from an earlier prune round
C15_Witness ==
  /\ paxos.proposing = "round"
  /\ Prunes(paxos.tx)
  /\ has_osdmap_manifest
  /\ Cardinality(osdmap_manifest) > 1
  /\ ManifestOf(paxos.tx) # osdmap_manifest

(***************************************************************************)
(* Rebuilding a pruned full map: rounds and prunes, trims to epochs whose  *)
(* full map was pruned, a stored incremental whose full_crc is wrong.      *)
(***************************************************************************)
RebuildPropose == LedgerOpen /\ ProposePending

RebuildTrim == \E e \in 0 .. MaxEpoch : MaybeTrim(e)

RebuildDamaged ==
  \E v \in DOMAIN store.inc :
    /\ ~Has(store.full, v)
    /\ \A w \in DOMAIN store.inc : store.inc[w].full_crc # BadCrc
    /\ StoreDamaged(v)

RebuildSetChecks == \E b \in BOOLEAN : SetExtraChecks(b)

NextRebuild ==
  \/ RebuildPropose
  \/ CommitProposal
  \/ RebuildTrim
  \/ RebuildDamaged
  \/ RebuildSetChecks

SpecRebuild == Init /\ [][NextRebuild]_vars

\* the full map of epoch first is not stored and is rebuilt from a pinned
\* map when it is asked for
Rebuilt(first) ==
  /\ first > get_first_committed /\ first <= get_last_committed
  /\ ~Has(store.full, first)
  /\ get_lower_closest_pinned(osdmap_manifest, first) # 0

\* the step is maybe_trim: it proposes a trim or stops the monitor
TrimStep ==
  /\ Writeable
  /\ paxos' # paxos
  /\ pending_inc' = pending_inc
  /\ paxos'.proposing = "trim" \/ paxos'.abort = "encode_trim"

\* the step proposes the trim that makes epoch first the first committed
TrimProposes(first) ==
  /\ TrimStep
  /\ paxos'.proposing = "trim"
  /\ \E i \in DOMAIN paxos'.tx :
       paxos'.tx[i].op = "put_first_committed" /\ paxos'.tx[i].v = first

\* one of the incrementals replayed for epoch first carries a full_crc
\* that is not the crc of the map it yields
ReplaysMismatch(first) ==
  \E v \in (get_lower_closest_pinned(osdmap_manifest, first) + 1) .. first :
    Has(store.inc, v) /\ store.inc[v].full_crc = BadCrc

\* C16 as amended: with mon_debug_extra_checks set, a rebuild from a pinned
\* map that replays an incremental whose full_crc is not the crc of the
\* map it yields is never returned or proposed: the trim that asks for it
\* stops the monitor with nothing proposed, and a rebuilt map that is
\* proposed has the crc its incremental gives as full_crc
C16_MismatchStopsWhenChecked ==
  [][(TrimStep /\ conf.mon_debug_extra_checks) =>
       \/ /\ paxos'.abort = "encode_trim"
          /\ paxos'.tx = <<>> /\ paxos'.proposing = ""
          /\ \E first \in 1 .. MaxEpoch :
               Rebuilt(first) /\ ReplaysMismatch(first)
       \/ /\ paxos'.abort = ""
          /\ \E first \in 1 .. MaxEpoch : TrimProposes(first)
          /\ \A first \in 1 .. MaxEpoch :
               (TrimProposes(first) /\ Rebuilt(first)) =>
                 /\ ~ReplaysMismatch(first)
                 /\ \E i \in DOMAIN paxos'.tx :
                      /\ paxos'.tx[i].op = "put_full"
                      /\ paxos'.tx[i].v = first
                      /\ get_crc(decode(paxos'.tx[i].bl))
                           = store.inc[first].full_crc]_vars

\* the monitor stopped in a trim although the full map of the new
\* first_committed could be rebuilt but for the crc of an incremental
C16_Witness ==
  /\ paxos.abort = "encode_trim"
  /\ conf.mon_debug_extra_checks
  /\ \E v \in DOMAIN store.inc : store.inc[v].full_crc = BadCrc

\* C16 as stated: whatever the options, a rebuild that replays an
\* incremental whose full_crc is not the crc of the map it yields is not
\* returned: no trim is proposed with it
C16_MismatchStopsAlways ==
  [][\A first \in 1 .. MaxEpoch :
       ~(TrimProposes(first) /\ Rebuilt(first) /\ ReplaysMismatch(first))]_vars

(***************************************************************************)
(* Requests that meet an uncommitted change: a cluster of two devices (a   *)
(* third id is free) gets a pool, then commands and boots arrive while     *)
(* rounds are staged, proposed and committed.  The requests a commit       *)
(* releases are dispatched again before anything new is.                   *)
(***************************************************************************)
MaxHeld == 2

InitRetry ==
  InitWith(GenesisMap([o \in OSDS |-> IF o < 2 THEN {CEPH_OSD_EXISTS, CEPH_OSD_UP}
                                      ELSE {}],
                      [o \in OSDS |-> IF o < 2 THEN CEPH_OSD_IN ELSE CEPH_OSD_OUT]),
           2)

RetryOpen ==
  /\ get_last_committed < MaxRound
  /\ retrying = <<>>
  /\ Len(waiting) < MaxHeld

RetryPool == RetryOpen /\ NextPoolId = 1 /\ PoolCreate(1, 2, 1)

RetryPgTemp ==
  /\ RetryOpen
  /\ \E id_vec \in {<<>>, <<1>>} : PgTemp(<<1, 0>>, id_vec)

RetryPrimaryTemp ==
  /\ RetryOpen
  /\ \E osd \in {0, 1} : PrimaryTemp(<<1, 0>>, osd)

RetryPgUpmap ==
  /\ RetryOpen
  /\ PgUpmap(<<1, 0>>, <<1>>)

RetryRmPgUpmap == RetryOpen /\ RmPgUpmap(<<1, 0>>)

RetryBoot == RetryOpen /\ Boot(1, 2, 2, 0)

RetryOsdCreate ==
  /\ RetryOpen
  /\ \E c \in {<<2, 3>>, <<2, 1>>} : OsdCreate(c[1], c[2])

RetryPropose == retrying = <<>> /\ ProposalDue /\ ProposePending

NextRetry ==
  \/ RetryPool
  \/ RetryPgTemp
  \/ RetryPrimaryTemp
  \/ RetryPgUpmap
  \/ RetryRmPgUpmap
  \/ RetryBoot
  \/ RetryOsdCreate
  \/ RetryPropose
  \/ CommitProposal
  \/ Redispatch

SpecRetry == InitRetry /\ [][NextRetry]_vars

\* the request of this step meets an uncommitted change of the kind it
\* would make: a pg_temp or upmap entry of its PG, the up entry of the
\* device that boots, the uuid of the device to create or, for a uuid the
\* committed map does not know, its id
MeetsPending(op, target, arg) ==
  CASE op = "osd pg-temp" ->
         pg_exists(osdmap, target) /\ Has(pending_inc.new_pg_temp, target)
    [] op \in {"osd pg-upmap", "osd rm-pg-upmap"} ->
         /\ pg_exists(osdmap, target)
         /\ target[1] \notin pending_inc.old_pools
         /\ (Has(pending_inc.new_pg_upmap, target)
               \/ target \in pending_inc.old_pg_upmap)
    [] op = "boot" ->
         /\ preprocess_boot(target, arg[1], arg[2]) = "prepare"
         /\ ~is_up(osdmap, target)
         /\ Has(pending_inc.new_up_client, target)
    [] op = "osd create" ->
         /\ ~is_destroyed(osdmap, target)
         /\ \/ pending_identify_osd(pending_inc, arg[1]) >= 0
            \/ (identify_osd(osdmap, arg[1]) < 0
                  /\ Has(pending_inc.new_state, target))
    [] OTHER -> FALSE

\* this step holds its request and leaves the pending delta alone
HoldsRequest ==
  /\ reply'.ret = HELD
  /\ pending_inc' = pending_inc
  /\ waiting' = Append(waiting, Held(reply'.op, reply'.osd, reply'.arg))

\* this step is the end of a proposal
RoundFinishes == paxos.proposing # "" /\ paxos'.proposing = ""

\* C17: a pg-temp or upmap command on a PG with a pending change of that
\* kind, a boot while the device's up entry is pending and a create whose
\* uuid (or, for an unknown uuid, id) is pending are not rejected: each is
\* held on the current proposal with the pending delta untouched, and the
\* end of the proposal hands every held request over to be dispatched
\* again, in the order held; a primary-temp command on a PG with a pending
\* primary-temp is not held, it replaces the pending entry
C17_PendingChangeHoldsOrReplaces ==
  [][/\ (reply'.op # "" /\ MeetsPending(reply'.op, reply'.osd, reply'.arg))
          => HoldsRequest
     /\ RoundFinishes => (retrying' = retrying \o waiting /\ waiting' = <<>>)
     /\ (/\ reply'.op = "osd primary-temp"
         /\ reply'.ret = 0
         /\ Has(pending_inc.new_primary_temp, reply'.osd))
          => /\ waiting' = waiting
             /\ pending_inc'.new_primary_temp[reply'.osd] = reply'.arg[1]]_vars

\* a pg-temp command that was held while the PG had a pending pg_temp has
\* been dispatched again after the commit and has staged its change, with
\* another released request still to be dispatched
C17_Witness ==
  /\ retrying # <<>>
  /\ reply.op = "osd pg-temp"
  /\ reply.ret = 0
  /\ Has(osdmap.pg_temp, reply.osd)
  /\ Has(pending_inc.new_pg_temp, reply.osd)
  /\ pending_inc.new_pg_temp[reply.osd] = reply.arg

\* C17 as stated: a primary-temp command on a PG with a pending
\* primary-temp change is held like the other requests that meet a
\* pending change
C17_EveryCommandIsHeld ==
  [][(/\ reply'.op # ""
      /\ reply'.ret >= 0
      /\ \/ MeetsPending(reply'.op, reply'.osd, reply'.arg)
         \/ /\ reply'.op = "osd primary-temp"
            /\ pg_exists(osdmap, reply'.osd)
            /\ Has(pending_inc.new_primary_temp, reply'.osd))
       => HoldsRequest]_vars

(***************************************************************************)
(* Commands that fail validation: the cluster of SpecRetry gets a pool and *)
(* commands with good and bad arguments, while devices go down and rounds  *)
(* commit.                                                                 *)
(***************************************************************************)
RejectPool == RetryOpen /\ NextPoolId = 1 /\ PoolCreate(1, 2, 2)

RejectPgTemp ==
  /\ RetryOpen
  /\ \E pgid \in {<<1, 0>>, <<2, 0>>} :
       \E id_vec \in {<<0, 1>>, <<1>>, <<0, 2>>, <<0, 1, 0>>} : PgTemp(pgid, id_vec)

RejectMarkMeDown == RetryOpen /\ MarkMeDown(1, osdmap.osd_addrs[1])

RejectOsdRm == RetryOpen /\ \E osd \in {1, 2} : OsdRm(osd)

RejectOsdDestroy ==
  /\ RetryOpen
  /\ \E id \in {1, 2}, sure \in BOOLEAN : OsdDestroy(id, sure, 0)

NextReject ==
  \/ RejectPool
  \/ RejectPgTemp
  \/ RejectMarkMeDown
  \/ RejectOsdRm
  \/ RejectOsdDestroy
  \/ RetryPropose
  \/ CommitProposal
  \/ Redispatch

SpecReject == InitRetry /\ [][NextReject]_vars

\* the error the command of this step has to be answered with when its
\* arguments are one of the bad ones, 0 when they are not
ValidationError(op, target, arg) ==
  CASE op = "osd destroy" ->
         IF arg[1] = 0 THEN EPERM
         ELSE IF exists(osdmap, target) /\ is_up(osdmap, target) THEN EBUSY
         ELSE 0
    [] op = "osd rm" ->
         IF exists(osdmap, target) /\ is_up(osdmap, target) THEN EBUSY ELSE 0
    [] op = "osd pg-temp" ->
         IF ~pg_exists(osdmap, target) THEN ENOENT
         ELSE IF Has(pending_inc.new_pg_temp, target) THEN 0
         ELSE IF \E i \in DOMAIN arg : ~exists(osdmap, arg[i]) THEN ENOENT
         ELSE IF arg # <<>> /\ (Len(arg) < get_pg_pool_min_size(osdmap, target)
                                  \/ Len(arg) > get_pg_pool_size(osdmap, target))
         THEN EINVAL
         ELSE 0
    [] OTHER -> 0

\* C18: a command with an unknown PG, pool or device in its arguments, a
\* destroy or remove of a device that is up, a pg-temp list shorter than
\* the pool's min_size or longer than its size, or a destroy without the
\* confirmation flag is answered in the step it arrives in with its error,
\* and a command answered with an error leaves pending_inc as it was,
\* starts no round and leaves nothing held on the proposal
C18_RejectedCommandLeavesPendingAlone ==
  [][/\ ValidationError(reply'.op, reply'.osd, reply'.arg) < 0
          => reply'.ret = ValidationError(reply'.op, reply'.osd, reply'.arg)
     /\ reply'.ret < 0
          => /\ pending_inc' = pending_inc
             /\ paxos' = paxos
             /\ waiting' = waiting
             /\ osdmap' = osdmap /\ store' = store]_vars

\* a pg-temp list longer than the pool's size has been answered EINVAL
\* while the round holds what earlier commands staged
C18_Witness ==
  /\ reply.op = "osd pg-temp"
  /\ reply.ret = EINVAL
  /\ Len(reply.arg) > get_pg_pool_size(osdmap, reply.osd)
  /\ pending_inc # create_pending(osdmap)

(***************************************************************************)
(* Stimuli that follow one another in a round: device 1 is taken down by   *)
(* the operator or by itself, boots, is removed and destroyed, while       *)
(* rounds are proposed and commit.                                         *)
(***************************************************************************)
OrderOsdDown == RetryOpen /\ \E definitely_dead \in BOOLEAN : OsdDown(1, definitely_dead)

OrderMarkMeDown == RetryOpen /\ MarkMeDown(1, osdmap.osd_addrs[1])

OrderBoot == RetryOpen /\ Boot(1, 2, 2, 0)

OrderOsdRm == RetryOpen /\ OsdRm(1)

OrderOsdDestroy == RetryOpen /\ \E sure \in BOOLEAN : OsdDestroy(1, sure, 0)

NextOrder ==
  \/ OrderOsdDown
  \/ OrderMarkMeDown
  \/ OrderBoot
  \/ OrderOsdRm
  \/ OrderOsdDestroy
  \/ RetryPropose
  \/ CommitProposal
  \/ Redispatch

SpecOrder == InitObserved /\ [][NextOrder]_vars

\* the stimulus of this step is op, for a device that is up in the
\* committed map and that an earlier stimulus of the round took down
AfterStagedDown(op) ==
  /\ reply'.op = op
  /\ StagedDown(osdmap, pending_inc, reply'.osd)

\* the boot of this step is passed on to prepare_boot: preprocess_boot
\* answers a boot from the address the device is up at ("already booted")
\* and one it ignores from the committed map alone
ReachesPrepareBoot ==
  preprocess_boot(reply'.osd, reply'.arg[1], reply'.arg[2]) = "prepare"

\* C19: stimuli are handled one at a time, each on the pending_inc the one
\* before left.  After a down staged in the same round a second down (from
\* the operator or the device) leaves the device staged down and a boot
\* that reaches prepare_boot stages nothing more and is held: they see the
\* staged down.  A remove
\* and a confirmed destroy look at the committed map alone: they still see
\* the device as up, are answered EBUSY and stage nothing
C19_BootSeesStagedDownRemoveDoesNot ==
  [][/\ (AfterStagedDown("osd down") \/ AfterStagedDown("mark_me_down"))
          => StagedDown(osdmap, pending_inc', reply'.osd)
     /\ (AfterStagedDown("boot") /\ ReachesPrepareBoot)
          => (pending_inc' = pending_inc /\ reply'.ret = HELD)
     /\ (AfterStagedDown("osd rm")
           \/ (AfterStagedDown("osd destroy") /\ reply'.arg[1] = 1))
          => (reply'.ret = EBUSY /\ pending_inc' = pending_inc)]_vars

\* a remove that arrived after the down of its device was staged has been
\* answered EBUSY
C19_Witness ==
  /\ reply.op = "osd rm"
  /\ reply.ret = EBUSY
  /\ StagedDown(osdmap, pending_inc, reply.osd)

\* C19 as stated: a remove or a confirmed destroy that arrives after a
\* down staged in the same round sees the device as down
C19_RemoveSeesStagedDown ==
  [][(AfterStagedDown("osd rm")
        \/ (AfterStagedDown("osd destroy") /\ reply'.arg[1] = 1))
       => reply'.ret # EBUSY]_vars

(***************************************************************************)
(* The mapping job: a pool is created, its PG is reported created and is   *)
(* given a pg_temp, devices are marked down, out and in, and the job the   *)
(* leader starts for each new map finishes or not before the next round is *)
(* proposed.                                                               *)
(***************************************************************************)
MappingOpen == get_last_committed <= MaxRound

MappingPool == MappingOpen /\ NextPoolId = 1 /\ PoolCreate(1, 2, 1)

MappingPgCreated ==
  /\ MappingOpen
  /\ \E pgid \in DOMAIN creating_pgs.pgs \ pending_created_pgs : PgCreated(0, 1, pgid)

\* the operator gives the PG a pg_temp once, when none is committed or staged
MappingPgTemp ==
  /\ MappingOpen
  /\ ~Has(osdmap.pg_temp, <<1, 0>>)
  /\ ~Has(pending_inc.new_pg_temp, <<1, 0>>)
  /\ PgTemp(<<1, 0>>, <<1, 2>>)

MappingOsdDown == MappingOpen /\ \E osd \in {0, 2} : OsdDown(osd, FALSE)

MappingOsdOut == MappingOpen /\ \E osd \in {0, 1} : OsdOut(osd)

MappingOsdIn == MappingOpen /\ OsdIn(0)

MappingPropose == ProposalDue /\ ProposePending

NextMapping ==
  \/ MappingPool
  \/ MappingPgCreated
  \/ MappingPgTemp
  \/ MappingOsdDown
  \/ MappingOsdOut
  \/ MappingOsdIn
  \/ MappingJobFinish
  \/ MappingPropose
  \/ CommitProposal

SpecMapping == Init /\ [][NextMapping]_vars

\* the job has finished and its mapping is not older than the committed map
JobUsable == mapping_job.state = "done" /\ mapping.epoch >= osdmap.epoch

\* C20: the round that is encoded differs from the round of the staged
\* delta alone (pg_temp entries primed from the job's mapping) only if the
\* job has finished and its mapping is of an epoch not older than the
\* committed map; otherwise the round is that of the staged delta.  The
\* job is gone once the round is encoded, whether it had finished or not,
\* and when the map advances the job is gone or a new one runs for the new
\* epoch
C20_MappingFoldedOnlyWhenDoneAndCurrent ==
  [][/\ EncodesRound
          => /\ (pending_inc' # FinalizeInc(osdmap, pending_inc) => JobUsable)
             /\ (~JobUsable => pending_inc' = FinalizeInc(osdmap, pending_inc))
             /\ (JobUsable => pending_inc'
                                = FinalizeInc(osdmap,
                                              maybe_prime_pg_temp(osdmap, pending_inc)))
             /\ mapping_job'.state = "none"
     /\ osdmap'.epoch > osdmap.epoch
          => /\ mapping_job'.state \in {"none", "running"}
             /\ mapping_job'.state = "running"
                  => mapping_job'.epoch = osdmap'.epoch]_vars

\* a round has been encoded with a pg_temp entry primed from the mapping
\* the job had finished
C20_Witness ==
  /\ paxos.proposing = "round"
  /\ Has(osdmap.pg_temp, <<1, 0>>)
  /\ Has(pending_inc.new_pg_temp, <<1, 0>>)
  /\ pending_inc.new_pg_temp[<<1, 0>>] = osdmap.pg_temp[<<1, 0>>]
  /\ mapping.epoch = osdmap.epoch
  /\ mapping_job.state = "none"

(***************************************************************************)
(* Creating devices: the table holds two devices and has room to grow;     *)
(* devices are marked down, destroyed and removed, and created again with  *)
(* or without a uuid and an id.                                            *)
(***************************************************************************)
\* devices 0 and 1 exist, device 0 is up; the table ends after device 1
TwoDevices ==
  [GenesisMap([o \in OSDS |-> IF o = 0 THEN {CEPH_OSD_EXISTS, CEPH_OSD_UP}
                              ELSE IF o = 1 THEN {CEPH_OSD_EXISTS} ELSE {}],
              [o \in OSDS |-> IF o = 0 THEN CEPH_OSD_IN ELSE CEPH_OSD_OUT])
     EXCEPT !.max_osd = 2]

InitCreate == InitWith(TwoDevices, 2)

CreateOpen == get_last_committed <= MaxRound /\ retrying = <<>> /\ waiting = <<>>

\* the table can take the device a create without an id may add
RoomToGrow(inc) ==
  FreeIds(inc) # {} \/ _allocate_osd_id(inc).allocated_id < MaxOsd

CreateOsdCreate ==
  /\ CreateOpen
  /\ RoomToGrow(pending_inc)
  /\ \E uuid \in {0, 2, 5} : OsdCreate(0 - 1, uuid)

CreateOsdDestroy == CreateOpen /\ \E id \in {1, 2} : OsdDestroy(id, TRUE, 0)

CreateOsdRm == CreateOpen /\ \E osd \in {1, 2} : OsdRm(osd)

CreatePropose == retrying = <<>> /\ ProposalDue /\ ProposePending

NextCreate ==
  \/ CreateOsdCreate
  \/ CreateOsdDestroy
  \/ CreateOsdRm
  \/ CreatePropose
  \/ CommitProposal
  \/ Redispatch

SpecCreate == InitCreate /\ [][NextCreate]_vars

\* an "osd create" without an id has just made a device of its own choice
CreateChose ==
  /\ reply'.op = "osd create"
  /\ reply'.osd = 0 - 1
  /\ reply'.ret = 0
  /\ pending_inc' # pending_inc

\* the id i is taken: the device exists or the pending round creates or
\* boots it
Taken(inc, i) ==
  \/ exists(osdmap, i)
  \/ Has(inc.new_up_client, i)
  \/ (Has(inc.new_state, i) /\ CEPH_OSD_EXISTS \in inc.new_state[i])

\* the end of the table as the pending round has it
PendingMaxOsd(inc) ==
  IF inc.new_max_osd >= 0 THEN inc.new_max_osd ELSE osdmap.max_osd

\* C21 (amended): when create chooses the id it takes the lowest id below
\* max_osd that is not taken, which is never the id of a destroyed device
\* (a destroyed device still exists), and it grows the table by one only
\* when every id below max_osd is taken
C21_CreateReusesFreeIdBeforeGrowing ==
  [][CreateChose
       => /\ ~Taken(pending_inc, reply'.id)
          /\ ~is_destroyed(osdmap, reply'.id)
          /\ \A i \in 0 .. (osdmap.max_osd - 1) :
               ~Taken(pending_inc, i) => reply'.id <= i
          /\ IF \E i \in 0 .. (osdmap.max_osd - 1) : ~Taken(pending_inc, i)
             THEN /\ reply'.id < osdmap.max_osd
                  /\ pending_inc'.new_max_osd = pending_inc.new_max_osd
             ELSE /\ reply'.id = PendingMaxOsd(pending_inc)
                  /\ pending_inc'.new_max_osd = reply'.id + 1]_vars

\* a create has reused the id of a removed device while another device is
\* destroyed
C21_Witness ==
  /\ reply.op = "osd create"
  /\ reply.osd = 0 - 1
  /\ reply.ret = 0
  /\ reply.id >= 0
  /\ reply.id < osdmap.max_osd
  /\ Has(pending_inc.new_state, reply.id)
  /\ pending_inc.new_max_osd < 0
  /\ \E o \in OSDS : is_destroyed(osdmap, o)

\* C21 as stated: when create chooses the id and a destroyed device is
\* there, the id of a destroyed device is reused and the table does not grow
C21_CreateReusesDestroyedId ==
  [][CreateChose /\ (\E o \in OSDS : is_destroyed(osdmap, o))
       => /\ is_destroyed(osdmap, reply'.id)
          /\ pending_inc'.new_max_osd = pending_inc.new_max_osd]_vars


(***************************************************************************)
(* Uuids: devices are created by "osd create" and "osd new" with and       *)
(* without an id, are removed and destroyed, and boot with the uuid their  *)
(* superblock carries.                                                     *)
(***************************************************************************)
UuidOsdCreate ==
  /\ CreateOpen
  /\ RoomToGrow(pending_inc)
  /\ \E id \in {0 - 1, 1, 2}, uuid \in {0, 1, 5} : OsdCreate(id, uuid)

UuidOsdNew ==
  /\ CreateOpen
  /\ RoomToGrow(pending_inc)
  /\ \E id \in {0 - 1, 1}, uuid \in {1, 5} : OsdNew(id, uuid, NOSECRETS)

UuidBoot == CreateOpen /\ \E fsid \in {1, 5} : Boot(1, 1, fsid, 0)

UuidOsdDestroy == CreateOpen /\ OsdDestroy(1, TRUE, 0)

UuidOsdRm == CreateOpen /\ OsdRm(1)

NextUuid ==
  \/ UuidOsdCreate
  \/ UuidOsdNew
  \/ UuidBoot
  \/ UuidOsdDestroy
  \/ UuidOsdRm
  \/ CreatePropose
  \/ CommitProposal
  \/ Redispatch

SpecUuid == InitCreate /\ [][NextUuid]_vars

\* two devices of the map m carry the same uuid, which is not zero
SharedUuid(m) ==
  \E a \in OSDS, b \in OSDS :
    /\ a # b
    /\ exists(m, a)
    /\ exists(m, b)
    /\ m.osd_uuid[a] # 0
    /\ m.osd_uuid[a] = m.osd_uuid[b]

\* the map the pending round makes, as far as the devices go
PendingMap == apply_incremental(osdmap, pending_inc)

\* a create or a new with the uuid u has just been answered
AnswersCreate ==
  /\ reply'.op \in {"osd create", "osd new"}
  /\ reply'.arg[1] # 0

\* C22 (amended): a step of create, new or commit never makes two devices
\* share a uuid, in the committed map or in the map the pending round
\* makes: only a boot does; the id a create or new answers for a uuid is
\* that of the device that carries the uuid, of a destroyed device that
\* is created again, or of no device, and it is not an id the pending
\* round creates; a create whose uuid is committed under another id is
\* rejected (EEXIST, or EINVAL when its id is that of a destroyed
\* device), one whose uuid is pending, or whose id is pending while its
\* uuid is unknown, is held, and neither stages anything
C22_CreateKeepsUuidsApart ==
  [][/\ (~SharedUuid(osdmap) /\ ~SharedUuid(PendingMap)
           /\ (SharedUuid(osdmap') \/ SharedUuid(PendingMap')))
          => reply'.op = "boot"
     /\ (AnswersCreate /\ reply'.ret = 0)
          => /\ reply'.id \in OSDS
             /\ exists(osdmap, reply'.id)
                  => \/ osdmap.osd_uuid[reply'.id] = reply'.arg[1]
                     \/ is_destroyed(osdmap, reply'.id)
             /\ (pending_inc'.new_uuid # pending_inc.new_uuid)
                  => ~Has(pending_inc.new_state, reply'.id)
     /\ (AnswersCreate /\ reply'.op = "osd create" /\ reply'.osd >= 0)
          => /\ (pending_identify_osd(pending_inc, reply'.arg[1]) < 0
                   /\ identify_osd(osdmap, reply'.arg[1]) >= 0
                   /\ identify_osd(osdmap, reply'.arg[1]) # reply'.osd)
                  => /\ reply'.ret = IF is_destroyed(osdmap, reply'.osd)
                                     THEN EINVAL ELSE EEXIST
                     /\ pending_inc' = pending_inc
             /\ (/\ ~is_destroyed(osdmap, reply'.osd)
                 /\ \/ pending_identify_osd(pending_inc, reply'.arg[1]) >= 0
                    \/ (identify_osd(osdmap, reply'.arg[1]) < 0
                          /\ Has(pending_inc.new_state, reply'.osd)))
                  => reply'.ret = HELD /\ pending_inc' = pending_inc]_vars

\* a create asks for a uuid that a device made since the start carries
\* under another id, and is rejected
C22_Witness ==
  /\ reply.op = "osd create"
  /\ reply.ret = EEXIST
  /\ reply.arg[1] = 5
  /\ identify_osd(osdmap, 5) >= 0
  /\ identify_osd(osdmap, 5) # reply.osd
  /\ ~SharedUuid(osdmap)

\* C22 as stated: no two devices of the committed map carry the same
\* uuid, boots included
C22_NoSharedUuid == ~SharedUuid(osdmap)

(***************************************************************************)
(* Removal: devices are marked down, removed with "osd rm", boot and are   *)
(* created again.                                                          *)
(***************************************************************************)
RemoveOsdRm == CreateOpen /\ \E osd \in {0, 1} : OsdRm(osd)

RemoveBoot == CreateOpen /\ Boot(1, 1, TwoDevices.osd_uuid[1], 0)

RemoveOsdDown == CreateOpen /\ OsdDown(0, FALSE)

RemoveOsdCreate ==
  /\ CreateOpen
  /\ RoomToGrow(pending_inc)
  /\ \E uuid \in {0, 5} : OsdCreate(0 - 1, uuid)

NextRemove ==
  \/ RemoveOsdRm
  \/ RemoveBoot
  \/ RemoveOsdDown
  \/ RemoveOsdCreate
  \/ CreatePropose
  \/ CommitProposal
  \/ Redispatch

SpecRemove == InitCreate /\ [][NextRemove]_vars

\* the round that commits in this step holds a removal of the device id
RemovalCommits(id) ==
  /\ paxos.proposing = "round"
  /\ osdmap'.epoch = osdmap.epoch + 1
  /\ exists(osdmap, id)
  /\ Has(pending_inc.new_state, id)
  /\ CEPH_OSD_EXISTS \in pending_inc.new_state[id]

\* the device id is gone from the map m and from the metadata of the store st
DeviceGone(m, st, id) ==
  /\ ~exists(m, id)
  /\ m.osd_state[id] = {}
  /\ m.osd_uuid[id] = 0
  /\ id \notin st.metadata

\* "osd rm" is answered for a device that exists
AnswersRm == reply'.op = "osd rm" /\ exists(osdmap, reply'.osd)

\* C23 (amended): "osd rm" stages the removal only of a device that is down
\* in the committed map, and is answered EBUSY with nothing staged for one
\* that is up; when a round that holds the removal and no boot of the
\* device commits, the device does not exist any more, all its state bits
\* are cleared, its uuid is zero and its metadata is dropped; a create
\* that chooses an id below max_osd takes an id that does not exist and
\* stages it as a new device, EXISTS and NEW and out, that is not destroyed
C23_RemoveErasesDownDevice ==
  [][/\ AnswersRm =>
          IF is_up(osdmap, reply'.osd)
          THEN /\ reply'.ret = EBUSY
               /\ pending_inc' = pending_inc
               /\ pending_metadata_rm' = pending_metadata_rm
          ELSE /\ reply'.ret = 0
               /\ Has(pending_inc'.new_state, reply'.osd)
               /\ CEPH_OSD_EXISTS \in pending_inc'.new_state[reply'.osd]
               /\ Has(pending_inc'.new_uuid, reply'.osd)
               /\ pending_inc'.new_uuid[reply'.osd] = 0
               /\ reply'.osd \in pending_metadata_rm'
     /\ \A id \in OSDS :
          (RemovalCommits(id) /\ ~Has(pending_inc.new_up_client, id))
            => DeviceGone(osdmap', store', id)
     /\ (CreateChose /\ reply'.id < osdmap.max_osd)
          => /\ ~exists(osdmap, reply'.id)
             /\ pending_inc'.new_state[reply'.id]
                  = {CEPH_OSD_EXISTS, CEPH_OSD_NEW}
             /\ pending_inc'.new_weight[reply'.id] = CEPH_OSD_OUT
             /\ apply_incremental(osdmap, pending_inc').osd_state[reply'.id]
                  = {CEPH_OSD_EXISTS, CEPH_OSD_NEW}]_vars

\* device 1 was removed by a committed round and a create without an id
\* has then taken its id for a new device
C23_Witness ==
  /\ reply.op = "osd create"
  /\ reply.osd = 0 - 1
  /\ reply.ret = 0
  /\ reply.id = 1
  /\ DeviceGone(osdmap, store, 1)
  /\ osdmap.max_osd = 2
  /\ Has(pending_inc.new_state, 1)
  /\ pending_inc.new_state[1] = {CEPH_OSD_EXISTS, CEPH_OSD_NEW}

\* C23 as stated: once the removal is committed the device does not exist
\* any more, its uuid is zero and its metadata is dropped
C23_RemovedDeviceIsGone ==
  [][\A id \in OSDS : RemovalCommits(id) => DeviceGone(osdmap', store', id)]_vars

(***************************************************************************)
(* Boots of a device that is up: device 0 boots from the address it has    *)
(* and from another one, with its own uuid and with a foreign one, while   *)
(* the operator marks it down and sets and clears its noup flag.           *)
(***************************************************************************)
RebootOpen == get_last_committed <= MaxRound

RebootBoot ==
  /\ RebootOpen
  /\ NoneHeld
  /\ \E addr \in {1, 2}, fsid \in {TwoDevices.osd_uuid[0], 5} :
       Boot(0, addr, fsid, 0)

RebootOsdDown == RebootOpen /\ OsdDown(0, FALSE)

RebootFlag == RebootOpen /\ \E do_set \in BOOLEAN : OsdFlag(do_set, CEPH_OSD_NOUP, 0)

NextReboot ==
  \/ RebootBoot
  \/ RebootOsdDown
  \/ RebootFlag
  \/ CreatePropose
  \/ CommitProposal
  \/ Redispatch

\* CommitProposal is enabled: a proposal is in flight
CommitDue == paxos.proposing # "" /\ paxos.abort = ""

\* CreatePropose is enabled: the proposal timer is armed
ProposeDue == Writeable /\ retrying = <<>> /\ ProposalDue

\* the proposal timer fires, paxos commits what is proposed and a held
\* request is dispatched again when its round has finished: weak fairness
\* of CreatePropose, CommitProposal and Redispatch. A step of the first two
\* disables its action, so that their weak fairness is that the action is
\* disabled again and again.
SpecReboot ==
  /\ InitCreate
  /\ [][NextReboot]_vars
  /\ []<>~ProposeDue
  /\ []<>~CommitDue
  /\ WF_vars(Redispatch)

\* a boot of device o from address addr that preprocess_boot lets through
\* has just been handled
BootHandled(o, addr) ==
  /\ reply'.op = "boot"
  /\ reply'.osd = o
  /\ reply'.arg[1] = addr
  /\ o < osdmap.max_osd
  /\ osdmap.osd_uuid[o] = reply'.arg[2]
  /\ can_mark_up(o)

\* a boot of device 0 from address 2 is held or waits to be dispatched again
BootHeld ==
  \E i \in DOMAIN (waiting \o retrying) :
    (waiting \o retrying)[i] = Held("boot", 0, <<2, TwoDevices.osd_uuid[0], 0>>)

UpAt(m, o, addr) == is_up(m, o) /\ m.osd_addrs[o] = addr

\* what a step does with a boot of device 0 and with what is held
RebootStep ==
  /\ \A addr \in {1, 2} :
       (reply'.op = "boot" /\ reply'.osd = 0 /\ reply'.arg[1] = addr
          /\ UpAt(osdmap, 0, addr))
         => /\ reply'.ret = 0
            /\ pending_inc' = pending_inc
            /\ waiting' = waiting
            /\ pending_metadata' = pending_metadata
  /\ \A addr \in {1, 2} :
       (BootHandled(0, addr) /\ is_up(osdmap, 0) /\ osdmap.osd_addrs[0] # addr)
         => /\ StagedDown(osdmap, pending_inc', 0)
            /\ pending_inc'.new_up_client = pending_inc.new_up_client
            /\ reply'.ret = HELD
            /\ waiting' = Append(waiting, Held("boot", 0, reply'.arg))
  /\ (osdmap' # osdmap)
       => /\ retrying' = retrying \o waiting
          /\ waiting' = <<>>
          /\ \A o \in DOMAIN pending_inc.new_up_client :
               UpAt(osdmap', o, pending_inc.new_up_client[o])
  /\ \A addr \in {1, 2} :
       (BootHandled(0, addr) /\ exists(osdmap, 0) /\ ~is_up(osdmap, 0)
          /\ ~Has(pending_inc.new_up_client, 0))
         => /\ Has(pending_inc'.new_up_client, 0)
            /\ pending_inc'.new_up_client[0] = addr
            /\ reply'.ret = 0

PartWeight == CEPH_OSD_IN - 1

InitWeight == InitWith([AllUpIn EXCEPT !.osd_weight[0] = PartWeight], 2)

WeightOpen == get_last_committed <= MaxRound

WeightMarkMeDown == WeightOpen /\ MarkMeDown(0, osdmap.osd_addrs[0])

WeightOsdOut == WeightOpen /\ OsdOut(0)

WeightOsdIn == WeightOpen /\ OsdIn(0)

WeightBoot == WeightOpen /\ NoneHeld /\ Boot(0, 1, AllUpIn.osd_uuid[0], 0)

WeightTick == WeightOpen /\ Tick

WeightAdvance == WeightOpen /\ now < MaxDownTime /\ AdvanceTime

NextWeight ==
  \/ WeightMarkMeDown
  \/ WeightOsdOut
  \/ WeightOsdIn
  \/ WeightBoot
  \/ WeightTick
  \/ WeightAdvance
  \/ CreatePropose
  \/ CommitProposal
  \/ Redispatch

SpecWeight == InitWeight /\ [][NextWeight]_vars

\* the weight the delta inc stages for device o, -1 when it stages none
StagedWeight(inc, o) ==
  IF Has(inc.new_weight, o) THEN inc.new_weight[o] ELSE 0 - 1

\* this step stages the mark-out of device o
StagesMarkOut(o) ==
  /\ StagedWeight(pending_inc', o) = CEPH_OSD_OUT
  /\ StagedWeight(pending_inc, o) # CEPH_OSD_OUT

\* this step stages a weight that marks device o in
StagesMarkIn(o) ==
  /\ StagedWeight(pending_inc', o) > CEPH_OSD_OUT
  /\ StagedWeight(pending_inc', o) # StagedWeight(pending_inc, o)

\* the round that commits in this step carries the weight w for device o
CommitsWeight(o, w) ==
  /\ paxos.proposing = "round"
  /\ osdmap'.epoch = osdmap.epoch + 1
  /\ StagedWeight(pending_inc, o) = w

WeightStep ==
  \A o \in OSDS :
    /\ StagesMarkOut(o)
         => /\ reply'.op \in {"osd out", "tick"}
            /\ is_in(osdmap, o)
            /\ Has(pending_inc'.new_xinfo, o)
            /\ pending_inc'.new_xinfo[o].old_weight = osdmap.osd_weight[o]
            /\ reply'.op = "tick"
                 => /\ Has(pending_inc'.new_state, o)
                    /\ CEPH_OSD_AUTOOUT \in pending_inc'.new_state[o]
    /\ (CommitsWeight(o, CEPH_OSD_OUT) /\ is_in(osdmap, o))
         => /\ is_out(osdmap', o)
            /\ osdmap'.osd_xinfo[o].old_weight = osdmap.osd_weight[o]
    /\ (StagesMarkIn(o) /\ reply'.op = "osd in")
         => /\ is_out(osdmap, o)
            /\ pending_inc'.new_weight[o]
                 = IF osdmap.osd_xinfo[o].old_weight > 0
                   THEN osdmap.osd_xinfo[o].old_weight ELSE CEPH_OSD_IN
            /\ osdmap.osd_xinfo[o].old_weight > 0
                 => /\ Has(pending_inc'.new_xinfo, o)
                    /\ pending_inc'.new_xinfo[o].old_weight = 0
    /\ (StagesMarkIn(o) /\ reply'.op = "boot")
         => /\ pending_inc'.new_weight[o]
                 = IF PendingXinfo(pending_inc, o).old_weight > 0
                   THEN PendingXinfo(pending_inc, o).old_weight
                   ELSE CEPH_OSD_IN
            /\ pending_inc'.new_xinfo[o].old_weight = 0
    /\ StagesMarkIn(o) => reply'.op \in {"osd in", "boot"}
    /\ \A w \in {PartWeight, CEPH_OSD_IN} :
         CommitsWeight(o, w)
           => /\ osdmap'.osd_weight[o] = w
              /\ osdmap'.osd_xinfo[o].old_weight = 0

\* C25: a step that stages the mark-out of a device, an "osd out" or a
\* tick, records the weight the device has in the committed map, which is
\* not zero, as the old_weight of its pending xinfo, and the round that
\* commits the mark-out leaves the device out with that old_weight; an
\* "osd in" stages the old_weight of the committed map when it is not zero,
\* a boot that marks the device in stages the old_weight the xinfo has
\* when it is not zero, and both stage an old_weight of 0 with it; the
\* round that commits a mark-in leaves the device at the staged weight
\* with an old_weight of 0
C25_OutRemembersWeightInRestoresIt == [][WeightStep]_vars

\* device 0 went down with its weight of PartWeight, tick marked it out,
\* and its boot has staged that weight again and an old_weight of 0
C25_Witness ==
  /\ reply.op = "boot"
  /\ reply.osd = 0
  /\ is_out(osdmap, 0)
  /\ CEPH_OSD_AUTOOUT \in osdmap.osd_state[0]
  /\ osdmap.osd_xinfo[0].old_weight = PartWeight
  /\ StagedWeight(pending_inc, 0) = PartWeight
  /\ pending_inc.new_xinfo[0].old_weight = 0

(***************************************************************************)
(* Failure records: devices 1 and 2 report device 0 failed and alive       *)
(* again, device 2 reports device 1, the operator marks device 0 down and  *)
(* nodown, rounds commit, and the monitor loses and wins elections.        *)
(***************************************************************************)
CancelOpen == get_last_committed < MaxRound

CancelFailure ==
  /\ CancelOpen
  /\ \E rep \in {<<0, 1>>, <<0, 2>>, <<1, 2>>}, failed_for \in {0, 1} :
       Failure(rep[1], rep[2], osdmap.osd_addrs[rep[2]],
               osdmap.osd_addrs[rep[1]], failed_for, FALSE)

CancelCancel ==
  /\ CancelOpen
  /\ \E rep \in {<<0, 1>>, <<0, 2>>, <<1, 2>>} :
       FailureCancel(rep[1], rep[2], osdmap.osd_addrs[rep[2]],
                     osdmap.osd_addrs[rep[1]])

CancelOsdDown == CancelOpen /\ OsdDown(0, FALSE)

CancelFlag == CancelOpen /\ OsdFlag(TRUE, CEPH_OSD_NODOWN, 0)

CancelTick == CancelOpen /\ Tick

CancelAdvance == CancelOpen /\ now < MaxDownTime /\ AdvanceTime

CancelPropose == CancelOpen /\ ProposePending

CancelRestart == CancelOpen /\ LoseLeadership

NextCancel ==
  \/ CancelFailure
  \/ CancelCancel
  \/ CancelOsdDown
  \/ CancelFlag
  \/ CancelTick
  \/ CancelAdvance
  \/ CancelPropose
  \/ CancelRestart
  \/ CommitProposal
  \/ WinElection

SpecCancel == InitObserved /\ [][NextCancel]_vars

\* the reporters recorded for device o, none when it has no record
ReportersOf(fi, o) == IF Has(fi, o) THEN fi[o].reporters ELSE EmptyMap

\* C26: a cancel from a reporter changes nothing but failure_info: nothing
\* is staged into pending_inc, paxos is left alone and the proposal is due
\* afterwards exactly if it was before; the records of the other devices
\* stay as they are, the record of the device loses the entry of that
\* reporter and no other, and it is erased exactly if no reporter remains;
\* a cancel that preprocess_failure drops changes no record
C26_CancelRemovesOneReporterOnly ==
  [][reply'.op = "cancel" =>
       /\ pending_inc' = pending_inc
       /\ paxos' = paxos
       /\ ProposalDue' = ProposalDue
       /\ osdmap' = osdmap
       /\ \A o \in OSDS \ {reply'.osd} :
            ReportersOf(failure_info', o) = ReportersOf(failure_info, o)
       /\ Has(failure_info', reply'.osd)
            = (DOMAIN ReportersOf(failure_info', reply'.osd) # {})
       /\ ReportersOf(failure_info', reply'.osd)
            = IF reply'.ret = 0
              THEN Del(ReportersOf(failure_info, reply'.osd), reply'.arg[1])
              ELSE ReportersOf(failure_info, reply'.osd)]_vars

\* the first of the two reporters of device 0 has cancelled: the record is
\* left with the second
C26_Witness ==
  /\ reply.op = "cancel"
  /\ reply.osd = 0
  /\ reply.ret = 0
  /\ reply.arg[1] = 1
  /\ Has(failure_info, 0)
  /\ DOMAIN failure_info[0].reporters = {2}
  /\ pending_inc = create_pending(osdmap)

\* this step is the report of reporter from about device o
ReportStep(o) == reply'.op = "failure" /\ reply'.osd = o /\ reply'.ret = 0

\* this step is the cancel by which the last reporter of device o leaves
LastCancelStep(o) ==
  /\ reply'.op = "cancel"
  /\ reply'.osd = o
  /\ reply'.ret = 0
  /\ DOMAIN failure_info[o].reporters = {reply'.arg[1]}

\* what a step does with the records
RecordStep ==
  \A o \in OSDS :
    /\ (~Has(failure_info, o) /\ Has(failure_info', o))
         => /\ ReportStep(o)
            /\ DOMAIN failure_info'[o].reporters = {reply'.arg[1]}
    /\ (Has(failure_info, o) /\ ~Has(failure_info', o))
         => \/ LastCancelStep(o)
            \/ (osdmap' # osdmap /\ is_up(osdmap, o) /\ ~is_up(osdmap', o))
            \/ (paxos.leader /\ ~paxos'.leader)
    /\ (Has(failure_info, o) /\ Has(failure_info', o)
          /\ failure_info'[o] # failure_info[o])
         => reply'.op \in {"failure", "cancel"} /\ reply'.osd = o

\* C27: every record is the record of a device that is up in the committed
\* map and has a reporter; a record appears only by a report, with that
\* reporter alone, and disappears only when its last reporter cancels, when
\* the round that marks the device down commits, or when the monitor
\* stops being the leader
C27_RecordOnlyWhileUpAndReported ==
  /\ [](\A o \in DOMAIN failure_info :
          /\ is_up(osdmap, o)
          /\ DOMAIN failure_info[o].reporters # {})
  /\ [][RecordStep]_vars

\* the record of device 0 has gone with the round that marked the device
\* down, while device 1 keeps its record
C27_Witness ==
  /\ ~is_up(osdmap, 0)
  /\ ~Has(failure_info, 0)
  /\ Has(failure_info, 1)
  /\ reply = NoReply
  /\ paxos.leader
  /\ paxos.proposing = ""
  /\ pending_inc = create_pending(osdmap)

(***************************************************************************)
(* The grace of check_failure: for each learned lagginess of device 0 and  *)
(* of its reporters and each set of reports, the record of device 0 is     *)
(* checked at later and later times, each time against a fresh delta.      *)
(***************************************************************************)
\* the lagginess a device has learned when it went down at down_stamp
Laggy(interval, probability, down_stamp) ==
  [osd_xinfo_t EXCEPT !.laggy_interval = interval,
                      !.laggy_probability = probability,
                      !.down_stamp = down_stamp]

InitGrace ==
  \E ti \in {0, 2, 4}, tp \in {0, 1}, ri \in {0, 2}, rp \in {0, 1},
     ds \in {0, 1}, who \in {{1}, {2}, {1, 2}}, fs1 \in {0, 1}, fs2 \in {0, 1} :
    InitReporting(
      [AllUpIn EXCEPT !.osd_xinfo[0] = Laggy(ti, tp, 0),
                      !.osd_xinfo[1] = Laggy(ri, rp, ds),
                      !.osd_xinfo[2] = Laggy(ri, 1, 0)],
      2,
      Put(EmptyMap, 0,
          [reporters |-> [r \in who |-> IF r = 1 THEN fs1 ELSE fs2]]))

\* check_failure(now, 0, failure_info[0]) after dt more seconds
GraceCheck ==
  \E dt \in {0, 1, 2} :
    /\ now + dt <= MaxTime
    /\ now' = now + dt
    /\ LET c == check_failure(create_pending(osdmap), now + dt, 0,
                              failure_info[0])
       IN /\ pending_inc' = c.inc
          /\ reply' = Reply("check_failure", 0, <<now + dt>>,
                            IF c.found THEN 1 ELSE 0)
    /\ UNCHANGED <<osdmap, store, has_osdmap_manifest, osdmap_manifest, paxos,
                   failure_info, last_osd_report, down_pending_out, conf>>
    /\ UNCHANGED <<PgVars, WaitVars, MdVars>>

NextGrace == GraceCheck

SpecGrace == InitGrace /\ [][NextGrace]_vars

\* interval * probability halved once per mon_osd_laggy_halflife elapsed,
\* times 2^LagScale
HalvedLag(xi, elapsed) ==
  (Pow2(LagScale) * xi.laggy_interval * xi.laggy_probability)
    \div Pow2(elapsed \div mon_osd_laggy_halflife)

\* the time t has reached the grace of the record fi of device 0: the base
\* grace, the decayed lagginess of the device and the mean of the decayed
\* lagginess of the reporters
GraceReached(t, fi) ==
  LET n == Cardinality(DOMAIN fi.reporters)
      failed_for == t - Min({fi.reporters[r] : r \in DOMAIN fi.reporters})
  IN n * Pow2(LagScale) * (failed_for - osd_heartbeat_grace)
       >= n * HalvedLag(osdmap.osd_xinfo[0], failed_for)
            + SumOver(DOMAIN fi.reporters,
                      [r \in DOMAIN fi.reporters |->
                         HalvedLag(osdmap.osd_xinfo[r],
                                   t - osdmap.osd_xinfo[r].down_stamp)])

\* C28: with the reporters and the learned lagginess fixed, a check stages
\* the down of device 0 exactly when the reporters come from
\* mon_osd_min_down_reporters subtrees and the time elapsed has reached the
\* grace, and never before the base grace has elapsed; a check that comes
\* after a check that triggered triggers as well
C28_GraceIsMonotone ==
  [][reply'.op = "check_failure" =>
       /\ (reply'.ret = 1)
            = (/\ GraceReached(now', failure_info[0])
               /\ Cardinality(reporters_by_subtree(failure_info[0]))
                    >= mon_osd_min_down_reporters)
       /\ (reply'.ret = 1) = StagedDown(osdmap, pending_inc', 0)
       /\ reply'.ret = 1
            => now' - get_failed_since(failure_info[0]) >= osd_heartbeat_grace
       /\ (reply.op = "check_failure" /\ reply.ret = 1) => reply'.ret = 1]_vars

\* a check of a laggy device with laggy reporters triggers after an earlier
\* check, later than the base grace, did not
C28_Witness ==
  /\ reply.op = "check_failure"
  /\ reply.ret = 1
  /\ reply.again = FALSE
  /\ osdmap.osd_xinfo[0].laggy_interval * osdmap.osd_xinfo[0].laggy_probability > 0
  /\ now - get_failed_since(failure_info[0]) > osd_heartbeat_grace + 1
  /\ ~GraceReached(now - 1, failure_info[0])

(***************************************************************************)
(* Devices are created, destroyed and purged again and again, with and     *)
(* without the consent of the services that hold their secrets.            *)
(***************************************************************************)
RepeatOpen == get_last_committed <= MaxRound /\ NoneHeld

RepeatOsdCreate ==
  /\ RepeatOpen
  /\ RoomToGrow(pending_inc)
  /\ \E cmd_id \in {0 - 1, 1, 2}, uuid \in {2, 5} : OsdCreate(cmd_id, uuid)

RepeatOsdNew ==
  /\ RepeatOpen
  /\ RoomToGrow(pending_inc)
  /\ \E cmd_id \in {0 - 1, 1}, uuid \in {2, 5},
        auth \in {NOSECRETS, 0, 0 - EEXIST, EINVAL} :
       OsdNew(cmd_id, uuid, auth)

RepeatOsdDestroy ==
  /\ RepeatOpen
  /\ \E id \in {1, 2}, auth \in {0, ENOENT, EINVAL} :
       OsdDestroy(id, TRUE, auth)

RepeatOsdPurge ==
  /\ RepeatOpen
  /\ \E id \in OSDS, crush \in {0, ENOENT, ENOTEMPTY}, auth \in {0, EINVAL} :
       OsdPurge(id, TRUE, crush, auth)

NextRepeat ==
  \/ RepeatOsdCreate
  \/ RepeatOsdNew
  \/ RepeatOsdDestroy
  \/ RepeatOsdPurge
  \/ CreatePropose
  \/ CommitProposal
  \/ Redispatch

SpecRepeat == InitCreate /\ [][NextRepeat]_vars

\* the committed map has the device the create or new of the step asks
\* for: the uuid is there, under the id asked for when one is asked for, and
\* the secrets that come with a new are those the device has
CreateReflected ==
  /\ reply'.op \in {"osd create", "osd new"}
  /\ reply'.arg[1] # 0
  /\ identify_osd(osdmap, reply'.arg[1]) >= 0
  /\ reply'.osd >= 0 => identify_osd(osdmap, reply'.arg[1]) = reply'.osd
  /\ reply'.op = "osd new" => reply'.arg[2] \in {NOSECRETS, 0 - EEXIST}

\* the committed map has what the confirmed destroy or purge of the step
\* asks for: the device is destroyed, or purged
DestroyReflected ==
  \/ /\ reply'.op = "osd destroy"
     /\ reply'.arg[1] = 1
     /\ is_destroyed(osdmap, reply'.osd) \/ ~exists(osdmap, reply'.osd)
  \/ /\ reply'.op = "osd purge"
     /\ reply'.arg[1] = 1
     /\ ~exists(osdmap, reply'.osd)

\* the step leaves the pending round as it was
NothingStaged ==
  /\ pending_inc' = pending_inc
  /\ paxos' = paxos
  /\ pending_metadata' = pending_metadata
  /\ pending_metadata_rm' = pending_metadata_rm
  /\ waiting' = waiting

RepeatStep ==
  /\ CreateReflected
       => /\ NothingStaged
          /\ reply'.ret = 0
          /\ reply'.id = identify_osd(osdmap, reply'.arg[1])
  /\ DestroyReflected => NothingStaged /\ reply'.ret = 0

\* C29: a create or new for a uuid (and id) that the committed map has, or
\* a destroy of a destroyed device, or a purge of a device that is gone,
\* stages nothing and is answered with success and, for create and new, with
\* the id the device has
C29_ReapplyingIsNoOpAnsweredOk == [][RepeatStep]_vars

\* a destroyed device was made anew under its id, and the same new is
\* answered with the id while nothing is staged
C29_Witness ==
  /\ reply.op = "osd new"
  /\ reply.osd = 1
  /\ reply.arg = <<5, 0 - EEXIST>>
  /\ reply.ret = 0
  /\ reply.id = 1
  /\ osdmap.osd_uuid[1] = 5
  /\ ~is_destroyed(osdmap, 1)
  /\ pending_inc.new_state = EmptyMap
  /\ pending_inc.new_uuid = EmptyMap
  /\ paxos.proposing = ""

\* the step is a destroy, purge or new that has an error for an answer
FailedStep ==
  /\ reply'.op \in {"osd destroy", "osd purge", "osd new"}
  /\ reply'.ret < 0

\* no service has refused the destroy, purge or new of the step
NoneRefused ==
  /\ reply'.op = "osd new" => reply'.arg[2] >= 0
  /\ reply'.op = "osd destroy" => reply'.arg[2] \in {0, ENOENT}
  /\ reply'.op = "osd purge"
       => /\ reply'.arg[2] \in {0, ENOENT}
          /\ is_destroyed(osdmap, reply'.osd) \/ reply'.arg[3] \in {0, ENOENT}

FailStep ==
  /\ FailedStep => NothingStaged
  /\ (/\ reply'.op \in {"osd destroy", "osd purge", "osd new"}
      /\ ~NothingStaged)
       => reply'.ret = 0 /\ NoneRefused

\* C30: a destroy, purge or new that is answered with an error has staged
\* nothing, and one that has staged something was refused by no service
C30_FailedOperationStagesNothing == [][FailStep]_vars

\* a purge of a device that exists, is down and is not destroyed was
\* refused by crush, and nothing of the device is staged
C30_Witness ==
  /\ reply.op = "osd purge"
  /\ reply.ret = ENOTEMPTY
  /\ exists(osdmap, reply.osd)
  /\ ~is_up(osdmap, reply.osd)
  /\ ~is_destroyed(osdmap, reply.osd)
  /\ ~Has(pending_inc.new_state, reply.osd)
  /\ ~Has(pending_inc.new_uuid, reply.osd)
  /\ paxos.proposing = ""

\* the step is a destroy, purge or new that changes the pending round
StagingStep ==
  /\ reply'.op \in {"osd destroy", "osd purge", "osd new"}
  /\ pending_inc' # pending_inc \/ paxos' # paxos

\* the round that paxos holds after the step is one proposal with the delta
\* that pending_inc holds, and what the operation stages for the device id
\* is in that delta
ProposedTogether(id) ==
  /\ paxos'.proposing = "round"
  /\ \E i \in DOMAIN paxos'.tx :
       paxos'.tx[i] = put_version(pending_inc'.epoch, pending_inc')
  /\ Has(pending_inc'.new_state, id)
  /\ Has(pending_inc'.new_uuid, id)
  /\ reply'.op = "osd new" => pending_inc'.new_uuid[id] = reply'.arg[1]
  /\ reply'.op = "osd purge"
       => \E i \in DOMAIN paxos'.tx :
            paxos'.tx[i] = [op |-> "erase_metadata", osd |-> id]

PlugStep ==
  /\ reply'.op \in {"osd destroy", "osd purge", "osd new"} => reply'.ret # ABORT
  /\ StagingStep
       => /\ reply'.ret = 0
          /\ ProposedTogether(IF reply'.op = "osd new" THEN reply'.id
                              ELSE reply'.osd)

\* C31: a destroy, purge or new runs its operation while proposals are
\* plugged (the operation never meets its assertion), proposals are not
\* plugged when the handler has returned, with or without an error, and what
\* the command stages is proposed at once as one round
C31_StagedWhilePluggedProposedOnce ==
  /\ [](~paxos.plugged)
  /\ [][PlugStep]_vars

\* a purge has left its removal and the erasure of the metadata in one
\* proposed round, and proposals are not plugged
C31_Witness ==
  /\ reply.op = "osd purge"
  /\ reply.ret = 0
  /\ ~paxos.plugged
  /\ paxos.proposing = "round"
  /\ pending_inc.new_uuid = [x \in {reply.osd} |-> 0]
  /\ \E i \in DOMAIN paxos.tx :
       paxos.tx[i] = [op |-> "erase_metadata", osd |-> reply.osd]

(***************************************************************************)
(* The transaction of a round, from its encoding to the store.             *)
(***************************************************************************)
\* the transaction tx holds, for the epoch e and the delta inc built on the
\* map m: the incremental, the full map that inc makes of m, and the
\* advanced last_committed; full maps are erased by a prune only with the
\* manifest that pins their neighbours
RoundIsWhole(tx, m, inc, e) ==
  /\ \E i \in DOMAIN tx : tx[i] = put_version(e, inc)
  /\ \E i \in DOMAIN tx :
       /\ tx[i].op = "put_full"
       /\ tx[i].v = e
       /\ decode(tx[i].bl) = apply_incremental(m, inc)
  /\ \E i \in DOMAIN tx : tx[i] = put_last_committed(e)
  /\ Erased(tx, "erase_full") # {} <=> Prunes(tx)

\* every epoch the store st has committed is rebuilt with the manifest mf
Reconstructable(st, mf) ==
  \A e \in st.first_committed .. st.last_committed :
    /\ get_version_full(st, mf, e).ret = 0
    /\ decode(get_version_full(st, mf, e).bl).epoch = e

TransactionStep ==
  /\ EncodesRound
       => /\ store' = store
          /\ RoundIsWhole(paxos'.tx, osdmap, pending_inc',
                          store.last_committed + 1)
  /\ (paxos.proposing = "round" /\ store' # store /\ paxos'.abort = "")
       => /\ store'.inc = apply_transaction(store, paxos.tx).inc
          /\ store'.full = apply_transaction(store, paxos.tx).full
          /\ store'.manifest = apply_transaction(store, paxos.tx).manifest
          /\ store'.last_committed = store.last_committed + 1
          /\ Has(store'.inc, store'.last_committed)
          /\ Has(store'.full, store'.last_committed)
          /\ Prunes(paxos.tx)
               => /\ store'.has_manifest
                  /\ store'.manifest = ManifestOf(paxos.tx)
                  /\ \A v \in Erased(paxos.tx, "erase_full") :
                       ~Has(store'.full, v)
  /\ (paxos.proposing = "round" /\ paxos'.proposing = ""
      /\ store'.last_committed = store.last_committed)
       => /\ store' = store
          /\ Reconstructable(store', osdmap_manifest')

\* C32: the transaction encoded for a round holds the incremental of the
\* new epoch, its full map, the advanced last_committed and, when the round
\* prunes, the manifest together with the erased full maps; encoding it
\* leaves the store alone, committing it applies all of it, and a round
\* that is given up before it is applied leaves the store as it was, with
\* every committed epoch rebuilt
C32_RoundIsOneTransaction == [][TransactionStep]_vars

\* a round that prunes is in flight: one transaction holds the incremental,
\* the manifest and the erasure of a full map, and the store has none of it
C32_Witness ==
  /\ paxos.proposing = "round"
  /\ Prunes(paxos.tx)
  /\ Erased(paxos.tx, "erase_full") # {}
  /\ \E i \in DOMAIN paxos.tx :
       paxos.tx[i] = put_version(store.last_committed + 1, pending_inc)
  /\ ~Has(store.inc, store.last_committed + 1)
  /\ \A v \in Erased(paxos.tx, "erase_full") : Has(store.full, v)

(***************************************************************************)
(* Leadership lost while a round is in flight: boots and commands wait for *)
(* the round, failure reports are held by the failure detector, and the    *)
(* monitor restarts as a peon, wins a later election or shuts down.  The   *)
(* clock stands still, so that a report held since failed_since is the     *)
(* message that said failed_for = now - failed_since.                      *)
(***************************************************************************)
\* the reports of the pairs <<target, reporter>> of S as messages, in the
\* order of the map of targets and of each target's map of reporters
RECURSIVE take_report_messages(_, _)
take_report_messages(fi, S) ==
  IF S = {} THEN <<>>
  ELSE LET p == CHOOSE x \in S :
                  \A y \in S : x[1] < y[1] \/ (x[1] = y[1] /\ x[2] <= y[2])
       IN <<Held("failure", p[1],
                 <<p[2], osdmap.osd_addrs[p[2]], osdmap.osd_addrs[p[1]],
                   now - fi[p[1]].reporters[p[2]], 0>>)>>
            \o take_report_messages(fi, S \ {p})

\* take_all_failures that hands no message on
take_all_failures_discarding(fi) == <<>>

\* take_all_failures(ls): the messages of every report held; the caller
\* clears failure_info
take_all_failures(fi) ==
  take_report_messages(fi, UNION {{<<t, r>> : r \in DOMAIN fi[t].reporters} :
                                    t \in DOMAIN fi})

\* the round in flight is given up: PaxosService::restart finishes the
\* requests that wait for it with -EAGAIN, which C_RetryMessage answers by
\* dispatching them again; on_restart; on_active of a peon dispatches the
\* failure reports again
Restart ==
  /\ paxos.proposing = "round"
  /\ LoseLeadershipWith(retrying \o waiting \o take_all_failures(failure_info))

\* on_shutdown: the failure reports and the waiters are discarded
Shutdown ==
  /\ paxos.abort = ""
  /\ paxos' = [paxos EXCEPT !.leader = FALSE, !.proposing = "", !.tx = <<>>,
                 !.abort = "shutdown"]
  /\ failure_info' = EmptyMap
  /\ mapping_job' = [state |-> "none", epoch |-> 0]
  /\ waiting' = <<>>
  /\ retrying' = <<>>
  /\ reply' = NoReply
  /\ UNCHANGED <<osdmap, pending_inc, store, has_osdmap_manifest,
                 osdmap_manifest, last_osd_report, down_pending_out, now,
                 conf, creating_pgs, pending_created_pgs, mapping>>
  /\ UNCHANGED MdVars

RestartOpen ==
  /\ get_last_committed < MaxRound
  /\ retrying = <<>>
  /\ Len(waiting) < MaxHeld

RestartBoot == RestartOpen /\ Boot(1, 2, 2, 0)

RestartOsdCreate ==
  /\ RestartOpen
  /\ \E c \in {<<2, 3>>, <<2, 1>>} : OsdCreate(c[1], c[2])

RestartFailure ==
  /\ RestartOpen
  /\ \E t \in {0, 1}, failed_for \in {0, 1} :
       Failure(t, 1 - t, osdmap.osd_addrs[1 - t], osdmap.osd_addrs[t],
               failed_for, FALSE)

RestartPropose == retrying = <<>> /\ ProposalDue /\ ProposePending

RestartShutdown == get_last_committed >= 2 /\ Shutdown

NextRestart ==
  \/ RestartBoot
  \/ RestartOsdCreate
  \/ RestartFailure
  \/ RestartPropose
  \/ CommitProposal
  \/ Restart
  \/ WinElection
  \/ RestartShutdown
  \/ Redispatch

\* WinElection is enabled: the monitor is a peon
ElectionDue == ~paxos.leader /\ paxos.abort = ""

\* a peon's election ends, paxos commits what is proposed, and a request to
\* be dispatched again is dispatched when the service is writeable: weak
\* fairness of WinElection, CommitProposal and Redispatch. A step of the
\* first two disables its action.
SpecRestart ==
  /\ InitRetry
  /\ [][NextRestart]_vars
  /\ []<>~ElectionDue
  /\ []<>~CommitDue
  /\ WF_vars(Redispatch)

\* every report of fi is among the requests of the sequence again
ReportsIn(fi, again) ==
  \A t \in DOMAIN fi : \A r \in DOMAIN fi[t].reporters :
    \E i \in DOMAIN again :
      /\ again[i].op = "failure"
      /\ again[i].target = t
      /\ again[i].arg[1] = r

RestartStep ==
  \* leadership is lost: everything that waits is to be dispatched again
  /\ (paxos.leader /\ ~paxos'.leader /\ paxos'.abort # "shutdown")
       => /\ reply' = NoReply
          /\ Len(retrying') >= Len(retrying) + Len(waiting)
          /\ SubSeq(retrying', 1, Len(retrying) + Len(waiting))
               = retrying \o waiting
          /\ ReportsIn(failure_info, retrying')
  \* a request is dispatched again: it is handled, not answered as failed
  /\ (Len(retrying') < Len(retrying) /\ paxos'.abort # "shutdown")
       => /\ retrying' = Tail(retrying)
          /\ reply'.op = Head(retrying).op
          /\ reply'.osd = Head(retrying).target
          /\ reply'.ret >= 0
  \* no other step but a shutdown lets a waiting request go, and a report
  \* leaves the failure detector only when its target is down in the map
  /\ (paxos'.abort # "shutdown" /\ Len(retrying') >= Len(retrying))
       => /\ Len(retrying') + Len(waiting') >= Len(retrying) + Len(waiting)
          /\ \A t \in DOMAIN failure_info \ DOMAIN failure_info' :
               \/ is_down(osdmap', t)
               \/ paxos.leader /\ ~paxos'.leader

MonVars ==
  <<osdmap, pending_inc, store, has_osdmap_manifest, osdmap_manifest, paxos,
    failure_info, last_osd_report, down_pending_out, now, conf,
    creating_pgs, pending_created_pgs, mapping, mapping_job, waiting,
    retrying, pending_metadata, pending_metadata_rm, last_epoch_clean>>

\* user ids of the users created, and the owner ids of the rows written:
\* a DBBucket whose owner_id is not set has the empty string
SfsUsers == {"usertest", "user1"}
SfsOwners == SfsUsers \cup {"this_user_does_not_exist", ""}
SfsBuckets == {"test1", "test2", "test_storage"}

\* std::system_error "FOREIGN KEY constraint failed: constraint failed"
FOREIGN_KEY_constraint_failed == 0 - 19

\* a buckets table without the foreign key
owner_id_references_user_id_unconstrained(db, owner_id) == TRUE

\* foreign_key(&DBBucket::owner_id).references(&DBUser::user_id)
owner_id_references_user_id(db, owner_id) == owner_id \in db.users

\* storage.replace(db_bucket): the row of the primary key bucket_name is
\* written if the constraints of the table hold, else the statement fails
\* and the table is as before
replace_bucket(db, bucket_name, owner_id) ==
  IF owner_id_references_user_id(db, owner_id)
  THEN [ret |-> 0,
        db |-> [db EXCEPT !.buckets = Put(@, bucket_name, owner_id)]]
  ELSE [ret |-> FOREIGN_KEY_constraint_failed, db |-> db]

\* createUser: users.store_user(user) with user_id username
CreateUser(username) ==
  /\ sfs' = [sfs EXCEPT !.users = @ \cup {username}]
  /\ reply' = Reply("store_user", 0, <<username>>, 0)
  /\ UNCHANGED MonVars

\* storage.replace(db_bucket) and store_bucket, which is a replace of the
\* row converted
StoreBucket(bucket_name, owner_id) ==
  LET r == replace_bucket(sfs, bucket_name, owner_id)
  IN /\ sfs' = r.db
     /\ reply' = Reply("replace", 0, <<bucket_name, owner_id>>, r.ret)
     /\ UNCHANGED MonVars

\* remove_bucket(bucket_name): no error when there is no such row
RemoveBucket(bucket_name) ==
  /\ sfs' = [sfs EXCEPT !.buckets = Del(@, bucket_name)]
  /\ reply' = Reply("remove_bucket", 0, <<bucket_name>>, 0)
  /\ UNCHANGED MonVars

SfsCreateUser == \E u \in SfsUsers : CreateUser(u)

SfsStoreBucket ==
  \E b \in SfsBuckets, o \in SfsOwners : StoreBucket(b, o)

SfsRemoveBucket == \E b \in SfsBuckets : RemoveBucket(b)

NextSfs ==
  \/ SfsCreateUser
  \/ SfsStoreBucket
  \/ SfsRemoveBucket

SpecSfs == InitObserved /\ [][NextSfs]_vars

\* a write of a bucket row whose owner is no user fails with the foreign
\* key error and leaves the tables as they were
BucketWriteStep ==
  reply'.op = "replace" =>
    IF reply'.arg[2] \in sfs.users
    THEN /\ reply'.ret = 0
         /\ Has(sfs'.buckets, reply'.arg[1])
         /\ sfs'.buckets[reply'.arg[1]] = reply'.arg[2]
    ELSE /\ reply'.ret = FOREIGN_KEY_constraint_failed
         /\ sfs' = sfs

\* C34: in the gateway's buckets table every stored row's owner_id is the
\* user_id of an existing user, after any sequence of writes; a write whose
\* owner is unknown or not set fails with the foreign key constraint error
\* and stores nothing.
C34_BucketOwnerExists ==
  /\ [](\A b \in DOMAIN sfs.buckets : sfs.buckets[b] \in sfs.users)
  /\ [][BucketWriteStep]_vars

\* with a user and a bucket stored, a write for an owner that is not set
\* has just failed
C34_Witness ==
  /\ reply.op = "replace"
  /\ reply.arg[2] = ""
  /\ reply.ret = FOREIGN_KEY_constraint_failed
  /\ sfs.users # {}
  /\ sfs.buckets # EmptyMap

(***************************************************************************)
(* Pruning under the options as they may be set: the interval, the minimum *)
(* and the transaction size are drawn when the monitor starts, sane or     *)
(* not; rounds are proposed and committed, maps are trimmed and pruning is *)
(* switched on and off.                                                    *)
(***************************************************************************)
PruneIntervals == {0, 1, 2, 3}
PruneMins == {0, 2, 3}
PruneTxsizes == {0, 1, 4}

InitPrune ==
  \E i \in PruneIntervals, m \in PruneMins, t \in PruneTxsizes :
    InitConfigured(AllUpIn,
                   [DefaultConf(0) EXCEPT
                      !.mon_osdmap_full_prune_interval = i,
                      !.mon_osdmap_full_prune_min = m,
                      !.mon_osdmap_full_prune_txsize = t],
                   EmptyMap)

PrunePropose == LedgerOpen /\ ProposePending

PruneTrim == \E e \in 0 .. MaxEpoch : MaybeTrim(e)

PruneSetEnabled == \E b \in BOOLEAN : SetPruneEnabled(b)

NextPrune ==
  \/ PrunePropose
  \/ CommitProposal
  \/ PruneTrim
  \/ PruneSetEnabled

SpecPrune == InitPrune /\ [][NextPrune]_vars

\* do_prune goes past its early return
PruneDue == is_prune_enabled /\ _prune_sanitize_options /\ should_prune

\* C35: when pruning is enabled, the options pass _prune_sanitize_options
\* and should_prune() is true, the prune of the round pins at least one
\* epoch that was not pinned and erases at least one full map: the
\* assertion num_pruned > 0 of do_prune holds.
C35_PruneRoundMakesProgress ==
  PruneDue =>
    /\ do_prune.did
    /\ do_prune.num_pruned > 0
    /\ do_prune.pinned \ osdmap_manifest # {}
    /\ \E i \in DOMAIN do_prune.tx : do_prune.tx[i].op = "erase_full"

\* a prune is due for the second time, under an interval that is not the
\* default one
C35_Witness ==
  /\ PruneDue
  /\ has_osdmap_manifest
  /\ Writeable
  /\ conf.mon_osdmap_full_prune_interval # mon_osdmap_full_prune_interval

(***************************************************************************)
(* Staged state bits and the down that follows: flags are set on a device, *)
(* it is stopped by command and sends beacons, and then it is reported     *)
(* failed, misses its beacons, marks itself down or boots from another     *)
(* address, all within the round that follows the first map.               *)
(***************************************************************************)
StagedOpen == get_last_committed = 1

StagedFlag ==
  /\ StagedOpen
  /\ \E do_set \in BOOLEAN : OsdFlag(do_set, CEPH_OSD_NOUP, 1)

StagedStop == StagedOpen /\ OsdStop(1)

\* the reports tell that the device has failed since time 0; the first
\* device also reports a connection refused
StagedFailure ==
  /\ StagedOpen
  /\ \E r \in {<<0, FALSE>>, <<2, FALSE>>, <<0, TRUE>>} :
       Failure(1, r[1], osdmap.osd_addrs[r[1]], osdmap.osd_addrs[1], now,
               r[2])

StagedMarkMeDown == StagedOpen /\ MarkMeDown(1, osdmap.osd_addrs[1])

StagedBoot ==
  StagedOpen /\ retrying = <<>> /\ waiting = <<>> /\ Boot(1, 2, 2, 0)

\* the device sends one beacon and falls silent
StagedBeacon ==
  /\ StagedOpen
  /\ ~Has(last_osd_report, 1)
  /\ Beacon(1, osdmap.osd_addrs[1])

StagedTick == StagedOpen /\ Tick

NextStaged ==
  \/ StagedFlag
  \/ StagedStop
  \/ StagedFailure
  \/ StagedMarkMeDown
  \/ StagedBoot
  \/ StagedBeacon
  \/ StagedTick
  \/ AdvanceTime
  \/ CommitProposal
  \/ Redispatch

SpecStaged == InitObserved /\ [][NextStaged]_vars

\* the state bits staged for device o in the delta inc
StagedMask(inc, o) == IF Has(inc.new_state, o) THEN inc.new_state[o] ELSE {}

\* this step is one of the failure detector, a forced failure, the beacon
\* timeout, mark-me-down or a boot, and stages the down of device o, for
\* which other bits are staged
DownStagedOver(o) ==
  /\ reply'.op \in {"failure", "tick", "mark_me_down", "boot"}
  /\ StagedMask(pending_inc, o) # {}
  /\ CEPH_OSD_UP \notin StagedMask(pending_inc, o)
  /\ CEPH_OSD_UP \in StagedMask(pending_inc', o)

\* this step is "osd stop" for the up device o, for which other bits are
\* staged
DownCommandedOver(o) ==
  /\ reply'.op = "osd stop"
  /\ reply'.osd = o
  /\ is_up(osdmap, o)
  /\ StagedMask(pending_inc, o) # {}
  /\ CEPH_OSD_UP \notin StagedMask(pending_inc, o)

KeptStep ==
  \A o \in OSDS :
    DownStagedOver(o) =>
      StagedMask(pending_inc, o) \cup {CEPH_OSD_UP}
        \subseteq StagedMask(pending_inc', o)

ReplacedStep ==
  \A o \in OSDS :
    /\ DownStagedOver(o) => StagedMask(pending_inc', o) = {CEPH_OSD_UP}
    /\ DownCommandedOver(o) =>
         StagedMask(pending_inc, o) \cup {CEPH_OSD_UP, CEPH_OSD_STOP}
           = StagedMask(pending_inc', o)

MinOsdmapEpochs == {1, 2}
ForceTrimTos == {0, 3, 5, 12}

InitTrim ==
  \E min \in MinOsdmapEpochs, forced \in ForceTrimTos :
    InitConfigured(AllUpIn,
                   [DefaultConf(0) EXCEPT
                      !.mon_min_osdmap_epochs = min,
                      !.mon_osd_force_trim_to = forced],
                   EmptyMap)

TrimPool == LedgerOpen /\ NextPoolId = 1 /\ PoolCreate(1, 2, 1)

TrimPgCreated ==
  \E pgid \in DOMAIN creating_pgs.pgs : PgCreated(0, 1, pgid)

TrimPropose == LedgerOpen /\ ProposePending

TrimTrim == \E e \in 0 .. MaxEpoch : MaybeTrim(e)

NextTrim ==
  \/ TrimPool
  \/ TrimPgCreated
  \/ TrimPropose
  \/ CommitProposal
  \/ TrimTrim

SpecTrim == InitTrim /\ [][NextTrim]_vars

\* C37: every trim target T that get_trim_to returns and that is not 0 has
\* first_committed < T <= last_committed - mon_min_osdmap_epochs, whatever
\* floor get_min_last_epoch_clean gave and also when mon_osd_force_trim_to
\* is set; get_trim_to returns 0 while any PG is creating.
C37_TrimTargetInRange ==
  \A e \in 0 .. (MaxEpoch + 1) :
    LET T == get_trim_to(e)
    IN /\ T # 0 =>
            /\ get_first_committed < T
            /\ T <= get_last_committed - conf.mon_min_osdmap_epochs
       /\ creating_pgs.pgs # EmptyMap => T = 0

\* after a trim, the forced target is below last_committed and is what
\* get_trim_to returns for a floor that would allow less
C37_Witness ==
  /\ get_first_committed > 1
  /\ conf.mon_osd_force_trim_to > get_first_committed
  /\ conf.mon_osd_force_trim_to < get_last_committed
  /\ get_trim_to(0) = conf.mon_osd_force_trim_to
  /\ osdmap.pools # EmptyMap

(***************************************************************************)
(* The reports of clean epochs: pools are created in rounds, and the       *)
(* beacons of the devices report, PG by PG, the epoch up to which the PG   *)
(* was clean, in any order, again and late.                                *)
(***************************************************************************)
\* stands for std::numeric_limits<epoch_t>::max(), above every epoch
EpochMax == Pow2(30)

\* a Lec as it is constructed: nothing reported, the floor at the largest
\* epoch_t
Lec == [epoch_by_pg |-> <<>>, next_missing |-> 0, floor |-> EpochMax]

\* epoch_by_pg.resize(n, 0) of a vector that is shorter
resize(v, n) == v \o [i \in 1 .. (n - Len(v)) |-> 0]

\* the first PG from ps on that has nothing reported in v, or v's size
RECURSIVE NextMissing(_, _)
NextMissing(v, ps) ==
  IF ps < Len(v) /\ v[ps + 1] # 0 THEN NextMissing(v, ps + 1) ELSE ps

\* a report that takes the latest value, stale or not
Lec_report_taking_stale(lec, ps, epoch) ==
  LET v == IF Len(lec.epoch_by_pg) <= ps
           THEN resize(lec.epoch_by_pg, ps + 1) ELSE lec.epoch_by_pg
      w == [v EXCEPT ![ps + 1] = epoch]
  IN [epoch_by_pg |-> w,
      floor |-> IF epoch < lec.floor
                THEN epoch ELSE lec.floor,
      next_missing |-> IF ps # lec.next_missing THEN lec.next_missing
                       ELSE NextMissing(w, lec.next_missing)]

\* LastEpochClean::Lec::report(ps, last_epoch_clean), the epoch reported
\* being epoch
Lec_report(lec, ps, epoch) ==
  LET v == IF Len(lec.epoch_by_pg) <= ps
           THEN resize(lec.epoch_by_pg, ps + 1) ELSE lec.epoch_by_pg
      old_lec == v[ps + 1]
      w == [v EXCEPT ![ps + 1] = epoch]
  IN IF old_lec >= epoch
     THEN [lec EXCEPT !.epoch_by_pg = v]
     ELSE [epoch_by_pg |-> w,
           floor |-> IF epoch < lec.floor THEN epoch
                     ELSE IF epoch > lec.floor
                             /\ old_lec = lec.floor
                     THEN Min({w[i] : i \in DOMAIN w})
                     ELSE lec.floor,
           next_missing |-> IF ps # lec.next_missing THEN lec.next_missing
                            ELSE NextMissing(w, lec.next_missing)]

\* LastEpochClean::report(pg, last_epoch_clean)
report(by_pool, pg, epoch) ==
  Put(by_pool, pg[1],
      Lec_report(IF Has(by_pool, pg[1]) THEN by_pool[pg[1]] ELSE Lec,
                 pg[2], epoch))

\* LastEpochClean::get_lower_bound(latest)
get_lower_bound(by_pool, latest) ==
  IF \E p \in DOMAIN latest.pools :
       \/ ~Has(by_pool, p)
       \/ by_pool[p].next_missing < latest.pools[p].pg_num
  THEN 0
  ELSE Min({latest.epoch} \cup {by_pool[p].floor : p \in DOMAIN latest.pools})

\* MOSDBeacon from device from that lists the PG pg: prepare_beacon
BeaconPg(from, addr, pg, min_last_epoch_clean) ==
  /\ Writeable
  /\ IF is_up(osdmap, from) /\ osdmap.osd_addrs[from] = addr
     THEN /\ last_osd_report' = Put(last_osd_report, from, now)
          /\ last_epoch_clean' = report(last_epoch_clean, pg,
                                        min_last_epoch_clean)
          /\ reply' = Reply("beacon", from, <<addr, pg, min_last_epoch_clean>>,
                            0)
     ELSE /\ reply' = Reply("beacon", from, <<addr, pg, min_last_epoch_clean>>,
                            IGNORED)
          /\ UNCHANGED <<last_osd_report, last_epoch_clean>>
  /\ UNCHANGED <<osdmap, pending_inc, store, has_osdmap_manifest,
                 osdmap_manifest, paxos, failure_info, down_pending_out, now,
                 conf, pending_metadata, pending_metadata_rm, sfs>>
  /\ UNCHANGED <<PgVars, WaitVars>>

MaxLec == 2

\* the pools are created in the round that follows the first map
LecPool ==
  /\ get_last_committed = 1
  /\ \E pg_num \in {1, 2} : PoolCreate(pg_num, 2, 1)

LecPropose == ProposalDue /\ ProposePending

LecBeacon ==
  \E p \in 1 .. MaxPool, ps \in {0, 1}, e \in 0 .. MaxLec :
    BeaconPg(0, 1, <<p, ps>>, e)

NextLec ==
  \/ LecPool
  \/ LecPropose
  \/ CommitProposal
  \/ LecBeacon

SpecLec == InitObserved /\ [][NextLec]_vars

\* the last_epoch_clean recorded for the PG pg, 0 if there is none
Recorded(by_pool, pg) ==
  IF Has(by_pool, pg[1]) /\ pg[2] < Len(by_pool[pg[1]].epoch_by_pg)
  THEN by_pool[pg[1]].epoch_by_pg[pg[2] + 1] ELSE 0

\* every PG of every pool of the map m has a report
AllReported(by_pool, m) ==
  \A p \in DOMAIN m.pools : \A ps \in 0 .. (m.pools[p].pg_num - 1) :
    Recorded(by_pool, <<p, ps>>) # 0

\* a report that is not newer than what is recorded changes no record and
\* no lower bound
StaleStep ==
  (reply'.op = "beacon" /\ reply'.ret = 0
     /\ reply'.arg[3] <= Recorded(last_epoch_clean, reply'.arg[2]))
    => /\ \A p \in 1 .. MaxPool, ps \in 0 .. MaxPgNum :
            Recorded(last_epoch_clean', <<p, ps>>)
              = Recorded(last_epoch_clean, <<p, ps>>)
       /\ get_lower_bound(last_epoch_clean', osdmap)
            = get_lower_bound(last_epoch_clean, osdmap)

\* C40: get_lower_bound returns 0 unless every pool of the latest map has a
\* report for each of its PGs; otherwise it returns a value that is at most
\* the smallest last_epoch_clean recorded for a PG of these pools (and at
\* most the epoch of the map); a report that is not newer than the one
\* recorded is ignored.
C40_LowerBoundOfCleanEpochs ==
  /\ [](LET lb == get_lower_bound(last_epoch_clean, osdmap)
        IN IF ~AllReported(last_epoch_clean, osdmap) THEN lb = 0
           ELSE /\ lb <= osdmap.epoch
                /\ \A p \in DOMAIN osdmap.pools :
                     \A ps \in 0 .. (osdmap.pools[p].pg_num - 1) :
                       lb <= Recorded(last_epoch_clean, <<p, ps>>))
  /\ [][StaleStep]_vars

\* two pools are in the map, every PG of both has a report, a stale report
\* has just been ignored, and the lower bound is that of the PG that is
\* behind
C40_Witness ==
  /\ DOMAIN osdmap.pools = {1, 2}
  /\ AllReported(last_epoch_clean, osdmap)
  /\ reply.op = "beacon"
  /\ reply.arg[3] < Recorded(last_epoch_clean, reply.arg[2])
  /\ get_lower_bound(last_epoch_clean, osdmap) = 1
  /\ \E p \in {1, 2} : Recorded(last_epoch_clean, <<p, 0>>) > 1

\* what prime_pg_temp would stage for the PG pgid if nothing were staged
\* for it: the entry, or nothing
WouldPrime(pgid) ==
  LET bare == [pending_inc EXCEPT !.new_pg_temp = Del(@, pgid)]
      next == apply_incremental(osdmap, pending_inc)
  IN prime_pg_temp(osdmap, next, bare, pgid).new_pg_temp

\* C38: priming never replaces a pg_temp that is staged in pending_inc for
\* the same PG, and never stages a pg_temp for a PG that is still being
\* created: what encode_pending primes keeps every staged entry and adds
\* entries only for PGs that are not creating.
C38_PrimingKeepsStagedPgTemp ==
  LET primed == maybe_prime_pg_temp(osdmap, pending_inc)
  IN /\ \A g \in DOMAIN pending_inc.new_pg_temp :
          /\ Has(primed.new_pg_temp, g)
          /\ primed.new_pg_temp[g] = pending_inc.new_pg_temp[g]
     /\ \A g \in DOMAIN primed.new_pg_temp :
          Has(creating_pgs.pgs, g) => Has(pending_inc.new_pg_temp, g)

\* a pg_temp is staged for a PG whose acting set the round changes: priming
\* alone would stage another one
C38_Witness ==
  \E g \in DOMAIN pending_inc.new_pg_temp :
    /\ mapping_job.state = "done"
    /\ Has(WouldPrime(g), g)
    /\ WouldPrime(g)[g] # pending_inc.new_pg_temp[g]
    /\ maybe_prime_pg_temp(osdmap, pending_inc).new_pg_temp[g]
         = pending_inc.new_pg_temp[g]

(***************************************************************************)
(* Tiers: pools are created in the first round; the tier commands arrive   *)
(* one to a round, each after the round of the one before has committed.   *)
(***************************************************************************)
MaxTierPool == 3

TierPools == 1 .. MaxTierPool

MaxTierRound == 5

TierAdd(pool_id, tierpool_id, num_objects, force_nonempty) ==
  /\ CommandMsg("osd tier add", pool_id,
                <<tierpool_id, num_objects, force_nonempty>>)
  /\ UNCHANGED retrying

TierAddCache(pool_id, tierpool_id, num_objects) ==
  /\ CommandMsg("osd tier add-cache", pool_id, <<tierpool_id, num_objects>>)
  /\ UNCHANGED retrying

TierRemove(pool_id, tierpool_id) ==
  CommandMsg("osd tier remove", pool_id, <<tierpool_id>>) /\ UNCHANGED retrying

TierSetOverlay(pool_id, overlaypool_id) ==
  /\ CommandMsg("osd tier set-overlay", pool_id, <<overlaypool_id>>)
  /\ UNCHANGED retrying

TierRemoveOverlay(pool_id) ==
  CommandMsg("osd tier remove-overlay", pool_id, <<>>) /\ UNCHANGED retrying

\* the round of the command before has committed and nothing is staged
TierOpen == get_last_committed < MaxTierRound /\ ~ProposalDue

TiersPool == get_last_committed = 1 /\ PoolCreateWithin(MaxTierPool, 1, 2, 1)

TiersAdd ==
  /\ TierOpen
  /\ \E P \in TierPools, T \in TierPools,
        n \in {<<0, 0>>, <<1, 0>>, <<1, 1>>} : TierAdd(P, T, n[1], n[2])

TiersAddCache ==
  /\ TierOpen
  /\ \E P \in TierPools, T \in TierPools, n \in {0, 1} : TierAddCache(P, T, n)

TiersRemove ==
  TierOpen /\ \E P \in TierPools, T \in TierPools : TierRemove(P, T)

TiersSetOverlay ==
  TierOpen /\ \E P \in TierPools, T \in TierPools : TierSetOverlay(P, T)

TiersRemoveOverlay == TierOpen /\ \E P \in TierPools : TierRemoveOverlay(P)

TiersPropose == ProposalDue /\ ProposePending

NextTiers ==
  \/ TiersPool
  \/ TiersAdd
  \/ TiersAddCache
  \/ TiersRemove
  \/ TiersSetOverlay
  \/ TiersRemoveOverlay
  \/ TiersPropose
  \/ CommitProposal

SpecTiers == InitObserved /\ [][NextTiers]_vars

\* pool P lists T in its tiers exactly when T names P as its base
LinksConsistent(pools) ==
  \A P \in DOMAIN pools :
    /\ pools[P].tiers \subseteq DOMAIN pools
    /\ \A T \in DOMAIN pools : T \in pools[P].tiers <=> pools[T].tier_of = P

\* no pool is a tier and the base of another pool
NoTierIsBase(pools) ==
  \A P \in DOMAIN pools :
    ~(is_tier(pools[P]) /\ \E T \in pools[P].tiers : T # P)

\* the overlay of a pool is one of its tiers
OverlayIsTier(pools) ==
  \A P \in DOMAIN pools :
    has_read_tier(pools[P]) => pools[P].read_tier \in pools[P].tiers

\* this step is a remove that takes the tier out of the tiers of its base
RemovesTier ==
  /\ reply'.op = "osd tier remove"
  /\ Has(pending_inc'.new_pools, reply'.osd)
  /\ reply'.arg[1] \in osdmap.pools[reply'.osd].tiers
  /\ reply'.arg[1] \notin pending_inc'.new_pools[reply'.osd].tiers

\* C39: with tier add, add-cache, remove, set-overlay and remove-overlay
\* arriving in any order, a round committed between any two of them, in
\* the committed map and in the map the pending round yields a pool lists
\* a tier exactly when the tier names it as its base, no pool is a tier
\* and the base of another pool, the overlay of a pool is one of its
\* tiers, and no remove takes the overlay of a pool out of its tiers
C39_TierLinksConsistent ==
  /\ [](\A m \in {osdmap, apply_incremental(osdmap, pending_inc)} :
          /\ LinksConsistent(m.pools)
          /\ NoTierIsBase(m.pools)
          /\ OverlayIsTier(m.pools))
  /\ [][RemovesTier => osdmap.pools[reply'.osd].read_tier # reply'.arg[1]]_vars

\* a pool is the overlay of its base, which the command before, a remove
\* of this tier, was refused for
C39_Witness ==
  /\ reply.op = "osd tier remove"
  /\ reply.ret = EBUSY
  /\ osdmap.pools[reply.osd].read_tier = reply.arg[1]
  /\ osdmap.pools[reply.arg[1]].tier_of = reply.osd
  /\ reply.arg[1] # reply.osd

=============================================================================
